---- MODULE Spec2Model ----
(***************************************************************************)
(* MiniOSGB: the binary scene-graph reader of include/miniosgb.h.          *)
(*                                                                         *)
(* The reader is a recursive-descent parser over an immutable byte buffer. *)
(* It is modelled as a stack machine: every C++ function of                *)
(* details::Reader is a sequence of instructions (one instruction per      *)
(* source statement), a call pushes a frame, and each action below         *)
(* executes one instruction of the frame on top of the stack.              *)
(*                                                                         *)
(* Numbers are kept in their machine representation: a little-endian       *)
(* tuple of bytes, 4 bytes for unsigned int / int / float, SizeTBytes for  *)
(* size_t (the x64 build: 8).  Arithmetic wraps at the width of its C++    *)
(* type.                                                                   *)
(***************************************************************************)
EXTENDS Integers, Sequences, FiniteSets, TLC

VARIABLES
    buffer,              \* Reader::_buffer[0 .. _length-1]
    pos,                 \* Reader::_pos (size_t)
    version,             \* Reader::_version (unsigned int)
    useBinaryBrackets,   \* Reader::_useBinaryBrackets
    objects,             \* Reader::_objects : uniqueId -> instance
    images,              \* Reader::_images
    arrays,              \* Reader::_arrays
    heap,                \* the instances created by make_shared, by handle
    stack,               \* the call stack of the reader
    ret,                 \* what Data::read returned: "none" while it runs
    rootObject,          \* Data::rootObject of the returned Data
    error                \* the caller's error string, as (offset, message)

vars == <<buffer, pos, version, useBinaryBrackets, objects, images, arrays,
          heap, stack, ret, rootObject, error>>

-----------------------------------------------------------------------------
(* Machine integers.                                                       *)

SizeTBytes == 8
U32Bytes == 4

RECURSIVE LE(_, _)
\* the little-endian representation of v in n bytes
LE(v, n) == IF n = 0 THEN <<>> ELSE <<v % 256>> \o LE(v \div 256, n - 1)

U32(v) == LE(v, U32Bytes)
SizeT(v) == LE(v, SizeTBytes)

\* conversion of an unsigned value to a wider unsigned type
Extend(a, n) == [i \in 1..n |-> IF i <= Len(a) THEN a[i] ELSE 0]

\* the element of a set of one element
The(S) == CHOOSE x \in S : TRUE

RECURSIVE AddC(_, _, _, _)
AddC(a, b, i, carry) ==
    IF i > Len(a) THEN <<>>
    ELSE LET s == a[i] + b[i] + carry
         IN  <<s % 256>> \o AddC(a, b, i + 1, s \div 256)

\* a + b in the unsigned type of Len(a) bytes (wraps)
Add(a, b) == The({AddC(x, y, 1, 0) : x \in {a}, y \in {b}})

RECURSIVE MulC(_, _, _, _)
MulC(a, k, i, carry) ==
    IF i > Len(a) THEN <<>>
    ELSE LET s == a[i] * k + carry
         IN  <<s % 256>> \o MulC(a, k, i + 1, s \div 256)

\* a * k in the unsigned type of Len(a) bytes (wraps)
Mul(a, k) == The({MulC(x, k, 1, 0) : x \in {a}})

\* the value fits 31 bits, so that Val is defined
IsSmall(a) == a[4] < 128 /\ \A i \in 5..Len(a) : a[i] = 0
Val(a) == a[1] + 256 * a[2] + 65536 * a[3] + 16777216 * a[4]

\* a > n, a <= n for a machine integer a and a small natural n
Gt(a, n) == \E x \in {a} : ~IsSmall(x) \/ Val(x) > n
Le(a, n) == ~Gt(a, n)
Lt(a, n) == \E x \in {a} : IsSmall(x) /\ Val(x) < n
\* a > b for two unsigned values of the same width
RECURSIVE GtFrom(_, _, _)
GtFrom(a, b, i) ==
    IF i = 0 THEN FALSE
    ELSE IF a[i] # b[i] THEN a[i] > b[i] ELSE GtFrom(a, b, i - 1)
GtU(a, b) == GtFrom(a, b, Len(a))

\* the sign bit of an int
Negative(a) == a[U32Bytes] >= 128

length == Len(buffer)

-----------------------------------------------------------------------------
(* Reader::read<T> and its specialisations.                                *)

\* _pos + n > _length, in size_t
Beyond(p, n) == Gt(Add(p, n), length)

\* the n bytes at _buffer + p
Bytes(p, n) == SubSeq(buffer, Val(p) + 1, Val(p) + n)

\* the outcome of read<T>() for a T of n bytes: the value and the new _pos,
\* or the Error thrown
read(p, n) ==
    IF Beyond(p, SizeT(n))
    THEN [ok |-> FALSE, offset |-> p, msg |-> "read beyond data length"]
    ELSE [ok |-> TRUE, value |-> Bytes(p, n), pos |-> Add(p, SizeT(n))]

\* read(T* value, size_t count) for a T of n bytes
readN(p, n, count) ==
    IF Beyond(p, Mul(count, n))
    THEN [ok |-> FALSE, offset |-> p, msg |-> "read beyond data length"]
    ELSE [ok |-> TRUE, value |-> Bytes(p, Val(count) * n),
          pos |-> Add(p, Mul(count, n))]

\* read<bool>(): the set of its outcomes.  The byte is read through a bool
\* lvalue; for a byte other than 0 and 1 that is undefined, and a build either
\* performs the test (value != true) && (value != false) on the byte, or
\* folds it to false and takes the byte for a bool: true because it is not
\* zero, or the value of its lowest bit.
readBool(p) ==
    IF Beyond(p, SizeT(1))
    THEN {[ok |-> FALSE, offset |-> p, msg |-> "read beyond data length"]}
    ELSE LET b == buffer[Val(p) + 1]
         IN  IF b # 1 /\ b # 0
             THEN {[ok |-> FALSE, offset |-> p, msg |-> "invalid bool value"]}
                  \cup {[ok |-> TRUE, value |-> v, pos |-> Add(p, SizeT(1))] :
                           v \in {TRUE, b % 2 = 1}}
             ELSE {[ok |-> TRUE, value |-> (b = 1), pos |-> Add(p, SizeT(1))]}

\* a read<std::string>() that returns the bytes there are when the buffer
\* ends inside the string
readString_short(p) ==
    LET size == read(p, U32Bytes)
    IN  IF ~size.ok THEN size
        ELSE IF Negative(size.value)
        THEN [ok |-> FALSE, offset |-> size.pos, msg |-> "invalid string length"]
        ELSE IF Beyond(size.pos, Extend(size.value, SizeTBytes))
        THEN [ok |-> TRUE, value |-> SubSeq(buffer, Val(size.pos) + 1, length),
              pos |-> SizeT(length)]
        ELSE readN(size.pos, 1, Extend(size.value, SizeTBytes))

\* read<std::string>()
readString(p) ==
    The({IF ~size.ok THEN size
         ELSE IF Negative(size.value)
         THEN [ok |-> FALSE, offset |-> size.pos, msg |-> "invalid string length"]
         ELSE readN(size.pos, 1, Extend(size.value, SizeTBytes)) :
            size \in {read(p, U32Bytes)}})

\* a ReadBeginBracket that takes every bracket for an int
ReadBeginBracket_int(p) ==
    IF useBinaryBrackets THEN Add(p, SizeT(4)) ELSE p

\* ReadBeginBracket: the new _pos
ReadBeginBracket(p) ==
    IF useBinaryBrackets
    THEN IF Gt(version, 148) THEN Add(p, SizeT(8)) ELSE Add(p, SizeT(4))
    ELSE p

\* ReadEndBracket: the new _pos
ReadEndBracket(p) == p

\* an ended() that is also true past the end: _pos >= _length
ended_or_past == ~Lt(pos, length)

\* Reader::ended
ended == (pos = SizeT(length))

-----------------------------------------------------------------------------
(* The instructions a function body is made of.  `to` names the local      *)
(* variable that receives a value ("" when the value is dropped).          *)

I_Rd(n, to) == [op |-> "Rd", n |-> n, to |-> to]                \* read<T>()
I_RdBool(to) == [op |-> "RdBool", to |-> to]                    \* read<bool>()
I_RdStr(to) == [op |-> "RdStr", to |-> to]                      \* read<std::string>()
I_RdN(n, count) == [op |-> "RdN", n |-> n, count |-> count]     \* read(T*, count)
I_Begin == [op |-> "Begin"]                                     \* ReadBeginBracket()
I_End == [op |-> "End"]                                         \* ReadEndBracket()
\* _pos += n * k, the product taken in an unsigned type of w bytes; n is
\* <<local>> or <<object, field>>; of # "" takes k from the elementSize of
\* the instance regs[of]
I_Skip(n, k, of, w) == [op |-> "Skip", n |-> n, k |-> k, of |-> of, w |-> w]
I_If(cond, then, else) == [op |-> "If", cond |-> cond, then |-> then, else |-> else]
I_For(i, n, body) == [op |-> "For", i |-> i, n |-> n, body |-> body]
I_Loop(i, n, body) == [op |-> "Loop", i |-> i, n |-> n, body |-> body]
I_Call(fn, args, to) == [op |-> "Call", fn |-> fn, args |-> args, to |-> to]
I_Ret(r) == [op |-> "Ret", r |-> r]
I_Throw(msg, arg) == [op |-> "Throw", msg |-> msg, arg |-> arg]
I_New(cls, to) == [op |-> "New", cls |-> cls, to |-> to]        \* make_shared<cls>()
I_Cast(r, base, to) == [op |-> "Cast", r |-> r, base |-> base, to |-> to]
I_Member(m, from) == [op |-> "Member", m |-> m, from |-> from]  \* _version = ..
I_Let(to, cond) == [op |-> "Let", to |-> to, cond |-> cond]     \* bool to = cond
\* obj.field = from, where from is <<local>> (<<"_pos">> for _buffer + _pos)
\* or, for an aggregate, <<local, local, ..>>
I_Set(obj, field, from) == [op |-> "Set", obj |-> obj, field |-> field, from |-> from]
I_Resize(obj, field, n) == [op |-> "Resize", obj |-> obj, field |-> field, n |-> n]
\* obj.field[i] = from, or obj.field[i].sub = from
I_SetElem(obj, field, i, sub, from) ==
    [op |-> "SetElem", obj |-> obj, field |-> field, i |-> i, sub |-> sub, from |-> from]
\* obj.field.emplace_back(from); obj = "" for a local list
I_EmplaceBack(obj, field, from) ==
    [op |-> "EmplaceBack", obj |-> obj, field |-> field, from |-> from]
I_Local(to) == [op |-> "Local", to |-> to]                      \* a local empty list
I_Find(map, key, to) == [op |-> "Find", map |-> map, key |-> key, to |-> to]
I_Put(map, key, from) == [op |-> "Put", map |-> map, key |-> key, from |-> from]
I_Finish == [op |-> "Finish"]

\* Conditions of if statements.
C_Reg(r) == [c |-> "reg", r |-> r]                    \* a bool local
C_Empty(r) == [c |-> "empty", r |-> r]                \* s.empty()
C_StrEq(r, s) == [c |-> "streq", r |-> r, s |-> s]    \* s == "..."
C_NonNull(r) == [c |-> "nonnull", r |-> r]            \* a pointer / iterator test
C_Eq(r, v) == [c |-> "eq", r |-> r, v |-> v]          \* x == constant
C_Gt0(r) == [c |-> "gt0", r |-> r]                    \* x > 0 (unsigned)
C_GtU(a, b) == [c |-> "gtu", a |-> a, b |-> b]        \* a > b (unsigned locals)
C_Bit(r, m) == [c |-> "bit", r |-> r, m |-> m]        \* x & m, m a single bit
C_Or(a, b) == [c |-> "or", a |-> a, b |-> b]
C_VerLt(n) == [c |-> "verlt", n |-> n]                \* _version < n
C_VerGe(n) == [c |-> "verge", n |-> n]                \* _version >= n
C_VerGt(n) == [c |-> "vergt", n |-> n]                \* _version > n

RECURSIVE Holds(_, _)
Holds(c, regs) ==
    CASE c.c = "reg" -> regs[c.r]
      [] c.c = "empty" -> regs[c.r] = <<>>
      [] c.c = "streq" -> regs[c.r] = c.s
      [] c.c = "nonnull" -> regs[c.r] # 0
      [] c.c = "eq" -> regs[c.r] = c.v
      [] c.c = "gt0" -> regs[c.r] # U32(0)
      [] c.c = "gtu" -> GtU(regs[c.a], regs[c.b])
      [] c.c = "bit" -> (regs[c.r][1] \div c.m) % 2 = 1
      [] c.c = "or" -> Holds(c.a, regs) \/ Holds(c.b, regs)
      [] c.c = "verlt" -> Lt(version, c.n)
      [] c.c = "verge" -> ~Lt(version, c.n)
      [] c.c = "vergt" -> Gt(version, c.n)

-----------------------------------------------------------------------------
(* Text constants, as the bytes of their ASCII characters.                 *)

Magic == <<161, 14, 145, 108, 69, 69, 251, 26>>       \* 0x1AFB45456C910EA1
s_0 == <<48>>                                         \* "0"
osg_PagedLOD == <<111, 115, 103, 58, 58, 80, 97, 103, 101, 100, 76, 79, 68>>
osg_Group == <<111, 115, 103, 58, 58, 71, 114, 111, 117, 112>>
osg_Geode == <<111, 115, 103, 58, 58, 71, 101, 111, 100, 101>>
osg_Geometry == <<111, 115, 103, 58, 58, 71, 101, 111, 109, 101, 116, 114, 121>>
osg_StateSet == <<111, 115, 103, 58, 58, 83, 116, 97, 116, 101, 83, 101, 116>>
osg_Material == <<111, 115, 103, 58, 58, 77, 97, 116, 101, 114, 105, 97, 108>>
osg_Texture2D == <<111, 115, 103, 58, 58, 84, 101, 120, 116, 117, 114, 101, 50, 68>>
osg_DefaultUserDataContainer ==
    <<111, 115, 103, 58, 58, 68, 101, 102, 97, 117, 108, 116, 85, 115, 101, 114,
      68, 97, 116, 97, 67, 111, 110, 116, 97, 105, 110, 101, 114>>
osg_DrawElementsUInt ==
    <<111, 115, 103, 58, 58, 68, 114, 97, 119, 69, 108, 101, 109, 101, 110, 116,
      115, 85, 73, 110, 116>>
osg_Vec3Array == <<111, 115, 103, 58, 58, 86, 101, 99, 51, 65, 114, 114, 97, 121>>
osg_Vec2Array == <<111, 115, 103, 58, 58, 86, 101, 99, 50, 65, 114, 114, 97, 121>>

-----------------------------------------------------------------------------
(* Function bodies.                                                        *)

\* a readHeader that tests the magic after it has read the container kind
readHeader_magic_late ==
    << I_Rd(8, "magic"),
       I_Rd(4, "type"),
       I_If(C_Eq("magic", Magic), <<>>, <<I_Throw("invalid data magic", "")>>),
       I_If(C_Eq("type", U32(0)), <<I_Throw("invalid data type: ", "type")>>, <<>>),
       I_Rd(4, "v"),
       I_Member("_version", "v"),
       I_Rd(4, "attributes"),
       I_If(C_Or(C_Bit("attributes", 1), C_Bit("attributes", 2)),
            <<I_Throw("unsupported attribute: ", "type")>>, <<>>),
       I_Let("b", C_Bit("attributes", 4)),
       I_Member("_useBinaryBrackets", "b"),
       I_RdStr("compressorName"),
       I_If(C_StrEq("compressorName", s_0), <<>>,
            <<I_Throw("unsupported compressor: ", "compressorName")>>) >>

readHeader ==
    << I_Rd(8, "magic"),
       I_If(C_Eq("magic", Magic), <<>>, <<I_Throw("invalid data magic", "")>>),
       I_Rd(4, "type"),
       I_If(C_Eq("type", U32(0)), <<I_Throw("invalid data type: ", "type")>>, <<>>),
       I_Rd(4, "v"),
       I_Member("_version", "v"),
       I_Rd(4, "attributes"),
       I_If(C_Or(C_Bit("attributes", 1), C_Bit("attributes", 2)),
            <<I_Throw("unsupported attribute: ", "type")>>, <<>>),
       I_Let("b", C_Bit("attributes", 4)),
       I_Member("_useBinaryBrackets", "b"),
       I_RdStr("compressorName"),
       I_If(C_StrEq("compressorName", s_0), <<>>,
            <<I_Throw("unsupported compressor: ", "compressorName")>>) >>

readObjectIfTrue ==
    << I_RdBool("flag"),
       I_If(C_Reg("flag"),
            <<I_Call("readObject", <<>>, "r"), I_Ret("r")>>,
            <<I_Ret("")>>) >>

\* a chain that reads an unknown class as a Group
Dispatch_default(cases) ==
    LET RECURSIVE Chain(_)
        Chain(i) ==
            IF i > Len(cases)
            THEN <<I_Call("readObjectData_Group", <<>>, "object")>>
            ELSE <<I_If(C_StrEq("className", cases[i][1]),
                        <<I_Call(cases[i][2], <<>>, "object")>>,
                        Chain(i + 1))>>
    IN  Chain(1)

\* the if / else-if chain of readObject over the class name
Dispatch(cases) ==
    LET RECURSIVE Chain(_)
        Chain(i) ==
            IF i > Len(cases)
            THEN <<I_Throw("unsupported object class: ", "className")>>
            ELSE <<I_If(C_StrEq("className", cases[i][1]),
                        <<I_Call(cases[i][2], <<>>, "object")>>,
                        Chain(i + 1))>>
    IN  Chain(1)

\* readObject up to the registry lookup
readObject_lookup ==
    << I_RdStr("className"),
       I_If(C_Empty("className"), <<I_Ret("")>>, <<>>),
       I_Begin,
       I_Rd(4, "uniqueId"),
       I_Find("_objects", "uniqueId", "it"),
       I_If(C_NonNull("it"), <<I_Ret("it")>>, <<>>) >>

\* the dispatch of readObject on the class name
readObject_dispatch ==
    Dispatch(<< <<osg_PagedLOD, "readObjectData_PagedLOD">>,
                <<osg_Group, "readObjectData_Group">>,
                <<osg_Geode, "readObjectData_Geode">>,
                <<osg_Geometry, "readObjectData_Geometry">>,
                <<osg_StateSet, "readObjectData_StateSet">>,
                <<osg_Material, "readObjectData_Material">>,
                <<osg_Texture2D, "readObjectData_Texture2D">>,
                <<osg_DefaultUserDataContainer,
                  "readObjectData_DefaultUserDataContainer">>,
                <<osg_DrawElementsUInt, "readObjectData_DrawElementsUInt">>,
                <<osg_Vec3Array, "readObjectData_Vec3Array">>,
                <<osg_Vec2Array, "readObjectData_Vec2Array">> >>)

\* readObject after the dispatch: the identity is assigned and registered
readObject_register ==
    << I_End,
       I_If(C_NonNull("object"),
            << I_Set("object", "uniqueId", <<"uniqueId">>),
               I_Put("_objects", "uniqueId", "object") >>,
            <<>>),
       I_Ret("object") >>

\* a readObject that opens the bracket before it reads the class name
readObject_bracket_first ==
    <<I_Begin>> \o SubSeq(readObject_lookup, 1, 2) \o SubSeq(readObject_lookup, 4, 6)
    \o readObject_dispatch \o readObject_register

readObject == readObject_lookup \o readObject_dispatch \o readObject_register

\* Data::read, between the construction of the Reader and the return
Data_read ==
    << I_Call("readHeader", <<>>, ""),
       I_Call("readObject", <<>>, "rootObject"),
       I_Finish >>

\* readObjectData<T>: make_shared<T>(), then the field readers in order
readObjectData(cls, chain) ==
    <<I_New(cls, "obj")>>
    \o [i \in 1..Len(chain) |-> I_Call(chain[i], <<"obj">>, "")]
    \o <<I_Ret("obj")>>

readObjectData_PagedLOD ==
    readObjectData("PagedLOD", <<"readObjectFields_Object", "readObjectFields_Node",
                                 "readObjectFields_LOD", "readObjectFields_PagedLOD">>)
readObjectData_Group ==
    readObjectData("Group", <<"readObjectFields_Object", "readObjectFields_Node",
                              "readObjectFields_Group">>)
readObjectData_Geode ==
    readObjectData("Geode", <<"readObjectFields_Object", "readObjectFields_Node",
                              "readObjectFields_Geode">>)
readObjectData_Geometry ==
    << I_New("Geometry", "obj"),
       I_Call("readObjectFields_Object", <<"obj">>, ""),
       I_If(C_VerGe(154), <<I_Call("readObjectFields_Node", <<"obj">>, "")>>, <<>>),
       I_Call("readObjectFields_Drawable", <<"obj">>, ""),
       I_Call("readObjectFields_Geometry", <<"obj">>, ""),
       I_Ret("obj") >>
readObjectData_DrawElementsUInt ==
    readObjectData("DrawElementsUInt",
                   <<"readObjectFields_Object", "readObjectFields_PrimitiveSet",
                     "readObjectFields_DrawElementsUInt">>)
readObjectData_StateSet ==
    readObjectData("StateSet", <<"readObjectFields_Object", "readObjectFields_StateSet">>)
readObjectData_Material ==
    readObjectData("Material", <<"readObjectFields_Object",
                                 "readObjectFields_StateAttribute",
                                 "readObjectFields_Material">>)
readObjectData_Texture2D ==
    readObjectData("Texture2D", <<"readObjectFields_Object",
                                  "readObjectFields_StateAttribute",
                                  "readObjectFields_Texture",
                                  "readObjectFields_Texture2D">>)
readObjectData_DefaultUserDataContainer ==
    readObjectData("DefaultUserDataContainer",
                   <<"readObjectFields_Object",
                     "readObjectFields_DefaultUserDataContainer">>)
readObjectData_Vec3Array ==
    readObjectData("Vec3Array", <<"readObjectFields_Object", "readObjectFields_Array",
                                  "readObjectFields_Vec3Array">>)
readObjectData_Vec2Array ==
    readObjectData("Vec2Array", <<"readObjectFields_Object", "readObjectFields_Array",
                                  "readObjectFields_Vec2Array">>)

\* if (read<bool>()) { then }
IfFlag(then) == <<I_RdBool("flag"), I_If(C_Reg("flag"), then, <<>>)>>

\* readObjectIfTrue(), the result dropped
DropObjectIfTrue == I_Call("readObjectIfTrue", <<>>, "")

readObjectFields_Object ==
    << I_RdStr("name"),
       I_Rd(4, ""),                                    \* dataVariance
       I_If(C_VerLt(77),
            <<I_Call("readObject", <<>>, "")>>,        \* UserData
            <<DropObjectIfTrue>>) >>                   \* UserDataContainer

readObjectFields_Node ==
    IfFlag(<< I_Begin,                                 \* InitialBound
              I_Rd(8, "centerX"), I_Rd(8, "centerY"), I_Rd(8, "centerZ"),
              I_Rd(4, "radius"),
              I_End >>)
    \o << DropObjectIfTrue,                            \* computeBoundCallback
          DropObjectIfTrue,                            \* updateCallback
          DropObjectIfTrue,                            \* eventCallback
          DropObjectIfTrue,                            \* cullCallback
          I_RdBool(""),                                \* cullingActive
          I_Rd(4, ""),                                 \* nodeMask
          I_If(C_VerLt(77),
               IfFlag(<< I_Rd(4, "size"),              \* descriptions
                         I_Begin,
                         I_For("i", "size", <<I_RdStr("")>>),
                         I_End >>),
               <<>>),
          I_Call("readObjectIfTrue", <<>>, "r"),
          I_Cast("r", "StateSet", "r"),
          I_Set("obj", "stateSet", <<"r">>) >>

\* the children block of Group and of PagedLOD
ReadChildren ==
    IfFlag(<< I_Rd(4, "size"),
              I_Resize("obj", "children", "size"),
              I_Begin,
              I_For("i", "size",
                    << I_Call("readObject", <<>>, "r"),
                       I_Cast("r", "Node", "r"),
                       I_SetElem("obj", "children", "i", "", <<"r">>) >>),
              I_End >>)

\* a Group layer whose loop reads no child: an iteration that consumes nothing
readObjectFields_Group_idle ==
    IfFlag(<< I_Rd(4, "size"),
              I_Resize("obj", "children", "size"),
              I_Begin,
              I_For("i", "size", <<>>),
              I_End >>)

\* a Group layer that stores every child it reads, Node or not
readObjectFields_Group_uncast ==
    IfFlag(<< I_Rd(4, "size"),
              I_Resize("obj", "children", "size"),
              I_Begin,
              I_For("i", "size",
                    << I_Call("readObject", <<>>, "r"),
                       I_SetElem("obj", "children", "i", "", <<"r">>) >>),
              I_End >>)

readObjectFields_Group == ReadChildren

readObjectFields_LOD ==
    << I_Rd(4, "v"), I_Set("obj", "centerMode", <<"v">>) >>
    \o IfFlag(<< I_Rd(24, "v"), I_Set("obj", "userDefinedCenter", <<"v">>),
                 I_Rd(8, "v"), I_Set("obj", "userDefinedRadius", <<"v">>) >>)
    \o << I_Rd(4, "rangeMode") >>
    \o IfFlag(<< I_Rd(4, "size"),                      \* RangeList
                 I_Resize("obj", "rangeList", "size"),
                 I_Begin,
                 I_For("i", "size",
                       << I_Rd(4, "min"),
                          I_Rd(4, "max"),
                          I_SetElem("obj", "rangeList", "i", "", <<"min", "max">>) >>),
                 I_End >>)

\* a PagedLOD layer that resizes rangeDataList to psize whatever fsize is
readObjectFields_PagedLOD_shrinking ==
    IfFlag(<< I_RdBool("hasDatabasePath"),
              I_If(C_Reg("hasDatabasePath"), <<I_RdStr("databasePath")>>, <<>>) >>)
    \o << I_If(C_VerLt(70), <<I_Rd(4, "")>>, <<>>),    \* frameNumberOfLastTraversal
          I_Rd(4, ""),                                 \* numChildrenThatCannotBeExpired
          I_RdBool("") >>                              \* disableExternalChildrenPaging
    \o IfFlag(<< I_Rd(4, "fsize"),                     \* RangedDataList
                 I_Resize("obj", "rangeDataList", "fsize"),
                 I_Begin,
                 I_For("i", "fsize",
                       << I_RdStr("s"),
                          I_SetElem("obj", "rangeDataList", "i", "filename", <<"s">>) >>),
                 I_End,
                 I_Rd(4, "psize"),
                 I_Resize("obj", "rangeDataList", "psize"),
                 I_Begin,
                 I_For("i", "psize",
                       << I_Rd(4, "v"),
                          I_SetElem("obj", "rangeDataList", "i", "priorityOffset", <<"v">>),
                          I_Rd(4, "v"),
                          I_SetElem("obj", "rangeDataList", "i", "priorityScale", <<"v">>) >>),
                 I_End >>)
    \o ReadChildren

readObjectFields_PagedLOD ==
    IfFlag(<< I_RdBool("hasDatabasePath"),
              I_If(C_Reg("hasDatabasePath"), <<I_RdStr("databasePath")>>, <<>>) >>)
    \o << I_If(C_VerLt(70), <<I_Rd(4, "")>>, <<>>),    \* frameNumberOfLastTraversal
          I_Rd(4, ""),                                 \* numChildrenThatCannotBeExpired
          I_RdBool("") >>                              \* disableExternalChildrenPaging
    \o IfFlag(<< I_Rd(4, "fsize"),                     \* RangedDataList
                 I_Resize("obj", "rangeDataList", "fsize"),
                 I_Begin,
                 I_For("i", "fsize",
                       << I_RdStr("s"),
                          I_SetElem("obj", "rangeDataList", "i", "filename", <<"s">>) >>),
                 I_End,
                 I_Rd(4, "psize"),
                 I_If(C_GtU("psize", "fsize"),
                      <<I_Resize("obj", "rangeDataList", "psize")>>, <<>>),
                 I_Begin,
                 I_For("i", "psize",
                       << I_Rd(4, "v"),
                          I_SetElem("obj", "rangeDataList", "i", "priorityOffset", <<"v">>),
                          I_Rd(4, "v"),
                          I_SetElem("obj", "rangeDataList", "i", "priorityScale", <<"v">>) >>),
                 I_End >>)
    \o ReadChildren

readObjectFields_Geode ==
    IfFlag(<< I_Rd(4, "size"),                         \* Drawables
              I_Resize("obj", "drawables", "size"),
              I_Begin,
              I_For("i", "size",
                    << I_Call("readObject", <<>>, "r"),
                       I_Cast("r", "Drawable", "r"),
                       I_SetElem("obj", "drawables", "i", "", <<"r">>) >>),
              I_End >>)

\* a Drawable layer that reads four optional objects and then the booleans
readObjectFields_Drawable_four_then_booleans ==
    << I_Call("readObjectIfTrue", <<>>, "r"),
       I_Cast("r", "StateSet", "r"),
       I_Set("obj", "stateSet", <<"r">>) >>
    \o IfFlag(<<I_RdN(8, 6)>>)
    \o << DropObjectIfTrue, DropObjectIfTrue, DropObjectIfTrue, DropObjectIfTrue,
          I_RdBool(""), I_RdBool(""), I_RdBool("") >>

\* a Drawable layer that leaves the state set of the Node layer in place
\* when it reads none itself
readObjectFields_Drawable_keeping ==
    << I_Call("readObjectIfTrue", <<>>, "r"),
       I_Cast("r", "StateSet", "r"),
       I_If(C_NonNull("r"), <<I_Set("obj", "stateSet", <<"r">>)>>, <<>>) >>
    \o IfFlag(<<I_RdN(8, 6)>>)
    \o << DropObjectIfTrue, DropObjectIfTrue,
          I_RdBool(""), I_RdBool(""), I_RdBool(""),
          DropObjectIfTrue, DropObjectIfTrue, DropObjectIfTrue, DropObjectIfTrue >>

readObjectFields_Drawable ==
    << I_Call("readObjectIfTrue", <<>>, "r"),
       I_Cast("r", "StateSet", "r"),
       I_Set("obj", "stateSet", <<"r">>) >>
    \o IfFlag(<<I_RdN(8, 6)>>)                         \* InitialBound
    \o << DropObjectIfTrue,                            \* computeBoundingBoxCallback
          DropObjectIfTrue,                            \* shape
          I_RdBool(""),                                \* supportsDisplayList
          I_RdBool(""),                                \* useDisplayList
          I_RdBool(""),                                \* useVertexBufferObjects
          DropObjectIfTrue,                            \* updateCallback
          DropObjectIfTrue,                            \* eventCallback
          DropObjectIfTrue,                            \* cullCallback
          DropObjectIfTrue >>                          \* drawCallback

readObjectFields_PrimitiveSet ==
    << I_Rd(4, ""),                                    \* NumInstances
       I_Rd(4, "v"), I_Set("obj", "mode", <<"v">>),
       I_Rd(4, "v"), I_Set("obj", "indexCount", <<"v">>),
       I_Set("obj", "indexData", <<"_pos">>) >>

readObjectFields_DrawElementsUInt ==
    << I_Skip(<<"obj", "indexCount">>, 4, "", SizeTBytes) >>

\* if (read<bool>()) { ReadBeginBracket(); [to =] ReadArray(); ReadEndBracket(); }
OptionalArray(to) ==
    IfFlag(<<I_Begin, I_Call("ReadArray", <<>>, to), I_End>>)

\* a VertexAttribData block whose arrays are stored in the tex-coord list
LegacyVertexAttribData_overwriting ==
    IfFlag(<< I_Rd(4, "size"),
              I_Resize("obj", "texCoordDataList", "size"),
              I_Begin,
              I_For("i", "size",
                    << I_Begin,
                       I_Call("ReadArray", <<>>, "r"),
                       I_SetElem("obj", "texCoordDataList", "i", "", <<"r">>),
                       I_End >>),
              I_End >>)

\* the VertexAttribData block of a Geometry of version < 112
LegacyVertexAttribData ==
    IfFlag(<< I_Rd(4, "size"),
              I_Resize("obj", "texCoordDataList", "size"),
              I_Begin,
              I_For("i", "size",
                    << I_Begin,
                       I_Call("ReadArray", <<>>, ""),
                       I_End >>),
              I_End >>)

readObjectFields_Geometry ==
    << I_Rd(4, "size"),                                \* PrimitiveSet
       I_If(C_VerLt(112),
            << I_Begin,
               I_Resize("obj", "primitives", "size"),
               I_For("p", "size",
                     << I_New("PrimitiveSet", "prim"),
                        I_Rd(4, ""),                   \* NumInstances
                        I_Rd(4, "v"), I_Set("prim", "mode", <<"v">>),
                        I_Rd(4, "indexCount"),
                        I_Set("prim", "indexCount", <<"indexCount">>),
                        I_If(C_Gt0("indexCount"),
                             << I_Set("prim", "indexData", <<"_pos">>),
                                I_Skip(<<"indexCount">>, 4, "", SizeTBytes) >>,
                             <<>>),
                        I_SetElem("obj", "primitives", "p", "", <<"prim">>) >>),
               I_End >>,
            << I_Resize("obj", "primitives", "size"),
               I_For("p", "size",
                     << I_Call("readObject", <<>>, "r"),
                        I_Cast("r", "PrimitiveSet", "r"),
                        I_SetElem("obj", "primitives", "p", "", <<"r">>) >>) >>),
       I_If(C_VerLt(112),
            IfFlag(<< I_Begin,
                      I_Call("ReadArray", <<>>, "r"),
                      I_Set("obj", "vertexData", <<"r">>),
                      I_End >>)
            \o OptionalArray("")
            \o OptionalArray("")
            \o OptionalArray("")
            \o OptionalArray("")
            \o IfFlag(<< I_Rd(4, "size"),
                         I_Resize("obj", "texCoordDataList", "size"),
                         I_Begin,
                         I_For("i", "size",
                               << I_Begin,
                                  I_Call("ReadArray", <<>>, "r"),
                                  I_SetElem("obj", "texCoordDataList", "i", "", <<"r">>),
                                  I_End >>),
                         I_End >>)
            \o LegacyVertexAttribData
            \o <<I_RdBool("")>>,                       \* FastPathHint
            << I_Call("readObjectIfTrue", <<>>, "r"), I_Cast("r", "Array", "r"),
               I_Set("obj", "vertexData", <<"r">>),
               I_Call("readObjectIfTrue", <<>>, "r"), I_Cast("r", "Array", "r"),
               I_Set("obj", "normalData", <<"r">>),
               I_Call("readObjectIfTrue", <<>>, "r"), I_Cast("r", "Array", "r"),
               I_Set("obj", "colorData", <<"r">>),
               I_Call("readObjectIfTrue", <<>>, "r"), I_Cast("r", "Array", "r"),
               I_Set("obj", "secondaryColorData", <<"r">>),
               I_Call("readObjectIfTrue", <<>>, "r"), I_Cast("r", "Array", "r"),
               I_Set("obj", "fogCoordData", <<"r">>),
               I_Rd(4, "size"),
               I_Resize("obj", "texCoordDataList", "size"),
               I_For("i", "size",
                     << I_Call("readObject", <<>>, "r"),
                        I_Cast("r", "Array", "r"),
                        I_SetElem("obj", "texCoordDataList", "i", "", <<"r">>) >>),
               I_Rd(4, "size"),                        \* VertexAttribData
               I_For("i", "size",
                     << I_Call("readObject", <<>>, "r"),
                        I_Cast("r", "Array", "vertexAttribData") >>) >>) >>

\* count, bracket, count (mode, value) pairs appended to a list
ReadModes(obj, list, size) ==
    << I_Rd(4, size),
       I_Begin,
       I_For("j", size,
             << I_Rd(4, "mode"),
                I_Rd(4, "value"),
                I_EmplaceBack(obj, list, <<"mode", "value">>) >>),
       I_End >>

\* count, bracket, count (attribute object, value) pairs; null casts are dropped
ReadAttributes(obj, list, size) ==
    << I_Rd(4, size),
       I_Begin,
       I_For("j", size,
             << I_Call("readObject", <<>>, "r"),
                I_Cast("r", "StateAttribute", "attribute"),
                I_Rd(4, "value"),
                I_If(C_NonNull("attribute"),
                     <<I_EmplaceBack(obj, list, <<"attribute", "value">>)>>,
                     <<>>) >>),
       I_End >>

readObjectFields_StateSet ==
    IfFlag(ReadModes("obj", "modes", "size"))
    \o IfFlag(ReadAttributes("obj", "attributes", "size"))
    \o IfFlag(<< I_Rd(4, "size"),
                 I_Begin,
                 I_For("i", "size",
                       <<I_Local("modes")>>
                       \o ReadModes("", "modes", "size_")
                       \o <<I_EmplaceBack("obj", "textureModesList", <<"modes">>)>>),
                 I_End >>)
    \o IfFlag(<< I_Rd(4, "size"),
                 I_Begin,
                 I_For("i", "size",
                       <<I_Local("attributes")>>
                       \o ReadAttributes("", "attributes", "size_")
                       \o <<I_EmplaceBack("obj", "textureAttributesList",
                                          <<"attributes">>)>>),
                 I_End >>)
    \o IfFlag(<< I_Rd(4, "size"),                      \* UniformList
                 I_Begin,
                 I_For("i", "size",
                       << I_Call("readObject", <<>>, ""),
                          I_Rd(4, "value") >>),
                 I_End >>)
    \o << I_Rd(4, "v"), I_Set("obj", "renderingHint", <<"v">>),
          I_Rd(4, "renderBinMode"),
          I_Rd(4, "binNumber"),
          I_RdStr("binName"),
          I_RdBool("nestRenderBins"),
          DropObjectIfTrue,
          DropObjectIfTrue,
          I_If(C_VerGe(151),
               IfFlag(<< I_Rd(4, "size"),
                         I_Begin,
                         I_For("i", "size",
                               <<I_RdStr(""), I_RdStr(""), I_Rd(4, "")>>),
                         I_End >>),
               <<>>) >>

readObjectFields_StateAttribute == <<DropObjectIfTrue, DropObjectIfTrue>>

\* one Property<T> of a Material, T of n bytes
ReadProperty(field, n) ==
    IfFlag(<< I_RdBool("frontAndBack"),
              I_Rd(n, "front"),
              I_Rd(n, "back"),
              I_Set("obj", field, <<"frontAndBack", "front", "back">>) >>)

readObjectFields_Material ==
    <<I_Rd(4, "colorMode")>>
    \o ReadProperty("ambient", 16)
    \o ReadProperty("diffuse", 16)
    \o ReadProperty("specular", 16)
    \o ReadProperty("emission", 16)
    \o ReadProperty("shininess", 4)

readObjectFields_Texture ==
    IfFlag(<<I_Rd(4, "v"), I_Set("obj", "wrapS", <<"v">>)>>)
    \o IfFlag(<<I_Rd(4, "v"), I_Set("obj", "wrapT", <<"v">>)>>)
    \o IfFlag(<<I_Rd(4, "v"), I_Set("obj", "wrapR", <<"v">>)>>)
    \o IfFlag(<<I_Rd(4, "minFilter")>>)
    \o IfFlag(<<I_Rd(4, "maxFilter")>>)
    \o << I_Rd(4, "maxAnisotropy"),
          I_RdBool("useHardwareMipMapGeneration"),
          I_RdBool("unRefImageDataAfterApply"),
          I_RdBool("clientStorageHint"),
          I_RdBool("resizeNonPowerOfTwoHint"),
          I_RdN(8, 4),                                 \* borderColor
          I_Rd(4, "borderWidth"),
          I_Rd(4, "internalFormatMode") >>
    \o IfFlag(<<I_Rd(4, "internalFormat")>>)
    \o IfFlag(<<I_Rd(4, "sourceFormat")>>)
    \o IfFlag(<<I_Rd(4, "sourceType")>>)
    \o << I_RdBool("shadowComparison"),
          I_Rd(4, "shadowComparisonFunc"),
          I_Rd(4, "shadowTextureMode"),
          I_Rd(4, "shadowAmbient"),
          I_If(C_VerGe(95),
               <<I_If(C_VerLt(154), IfFlag(<<I_RdN(4, 6)>>), <<>>)>>,
               <<>>),
          I_If(C_VerGe(98), IfFlag(<<I_RdStr("swizzle")>>), <<>>),
          I_If(C_VerGe(155),
               <<I_Rd(4, "minLOD"), I_Rd(4, "maxLOD"), I_Rd(4, "lodBias")>>,
               <<>>) >>

readObjectFields_Texture2D ==
    << I_Call("readImage", <<>>, "r"),
       I_Set("obj", "image", <<"r">>),
       I_Rd(4, "textureWidth"),
       I_Rd(4, "textureHeight") >>

readObjectFields_DefaultUserDataContainer ==
    IfFlag(<<I_Begin, I_Call("readObject", <<>>, ""), I_End>>)  \* UserData
    \o IfFlag(<< I_Rd(4, "size"),                      \* Descriptions
                 I_Begin,
                 I_For("i", "size", <<I_RdStr("")>>),
                 I_End >>)
    \o IfFlag(<< I_Rd(4, "size"),                      \* UserObjects
                 I_Begin,
                 I_For("i", "size", <<I_Call("readObject", <<>>, "")>>),
                 I_End >>)

readObjectFields_Array ==
    << I_Rd(4, "v"), I_Set("obj", "binding", <<"v">>),
       I_RdBool("b"), I_Set("obj", "normalize", <<"b">>),
       I_RdBool(""),                                   \* PreserveDataType
       I_Rd(4, "v"), I_Set("obj", "elementCount", <<"v">>),
       I_Set("obj", "elementData", <<"_pos">>) >>

readObjectFields_Vec2Array ==
    << I_Skip(<<"obj", "elementCount">>, 4 * 2, "", SizeTBytes) >>

readObjectFields_Vec3Array ==
    << I_Skip(<<"obj", "elementCount">>, 4 * 3, "", SizeTBytes) >>

readImage ==
    << I_RdBool("flag"),
       I_If(C_Reg("flag"),
            << I_If(C_VerGt(94), <<I_RdStr("className")>>, <<>>),
               I_Rd(4, "uniqueId"),
               I_Find("_images", "uniqueId", "it"),
               I_If(C_NonNull("it"), <<I_Ret("it")>>, <<>>),
               I_New("Image", "image"),
               I_Set("image", "uniqueId", <<"uniqueId">>),
               I_Put("_images", "uniqueId", "image"),
               I_RdStr("name"),
               I_Rd(4, "writeHint"),
               I_Rd(4, "decision"),
               I_If(C_Eq("decision", U32(1)),          \* IMAGE_INLINE_FILE
                    << I_Rd(4, "size"),
                       I_Set("image", "data", <<"_pos">>),
                       I_Set("image", "dataLength", <<"size">>),
                       I_Skip(<<"size">>, 1, "", U32Bytes) >>,
                    <<I_Throw("invalid image decision: ", "decision")>>),
               I_Call("readObjectFields_Object", <<"image">>, ""),
               I_Ret("image") >>,
            <<I_Ret("")>>) >>

ReadArray ==
    << I_RdBool("flag"),                               \* hasArray
       I_If(C_Reg("flag"),
            << I_Rd(4, "uniqueId"),
               I_Find("_arrays", "uniqueId", "it"),
               I_If(C_NonNull("it"), <<I_Ret("it")>>, <<>>),
               I_Rd(4, "type"),
               I_If(C_Eq("type", U32(15)), <<I_New("Vec2Array", "arr")>>,
               <<I_If(C_Eq("type", U32(16)), <<I_New("Vec3Array", "arr")>>,
               <<I_If(C_Eq("type", U32(17)), <<I_New("Vec4Array", "arr")>>,
               <<I_Throw("unsupported array type: ", "type")>>)>>)>>),
               I_Set("arr", "uniqueId", <<"uniqueId">>),
               I_Put("_arrays", "uniqueId", "arr"),
               I_Rd(4, "elementCount"),
               I_Set("arr", "elementCount", <<"elementCount">>),
               I_If(C_Gt0("elementCount"),
                    <<I_Set("arr", "elementData", <<"_pos">>)>>, <<>>),
               I_Skip(<<"elementCount">>, 0, "arr", U32Bytes),
               I_RdBool("flag"),                       \* hasIndices
               I_If(C_Reg("flag"),
                    <<I_Throw("unsupported feature: array with indices", "")>>,
                    <<>>),
               I_Rd(4, "v"), I_Set("arr", "binding", <<"v">>),
               I_Rd(4, "v"),
               I_Let("b", C_Gt0("v")),
               I_Set("arr", "normalize", <<"b">>),
               I_Ret("arr") >>,
            <<>>),
       I_Ret("") >>

\* the body of the function named fn
Body(fn) ==
    CASE fn = "readHeader" -> readHeader
      [] fn = "readObject" -> readObject
      [] fn = "readObjectIfTrue" -> readObjectIfTrue
      [] fn = "readImage" -> readImage
      [] fn = "ReadArray" -> ReadArray
      [] fn = "readObjectData_PagedLOD" -> readObjectData_PagedLOD
      [] fn = "readObjectData_Group" -> readObjectData_Group
      [] fn = "readObjectData_Geode" -> readObjectData_Geode
      [] fn = "readObjectData_Geometry" -> readObjectData_Geometry
      [] fn = "readObjectData_DrawElementsUInt" -> readObjectData_DrawElementsUInt
      [] fn = "readObjectData_StateSet" -> readObjectData_StateSet
      [] fn = "readObjectData_Material" -> readObjectData_Material
      [] fn = "readObjectData_Texture2D" -> readObjectData_Texture2D
      [] fn = "readObjectData_DefaultUserDataContainer" ->
            readObjectData_DefaultUserDataContainer
      [] fn = "readObjectData_Vec3Array" -> readObjectData_Vec3Array
      [] fn = "readObjectData_Vec2Array" -> readObjectData_Vec2Array
      [] fn = "readObjectFields_Object" -> readObjectFields_Object
      [] fn = "readObjectFields_Node" -> readObjectFields_Node
      [] fn = "readObjectFields_Group" -> readObjectFields_Group
      [] fn = "readObjectFields_LOD" -> readObjectFields_LOD
      [] fn = "readObjectFields_PagedLOD" -> readObjectFields_PagedLOD
      [] fn = "readObjectFields_Geode" -> readObjectFields_Geode
      [] fn = "readObjectFields_Drawable" -> readObjectFields_Drawable
      [] fn = "readObjectFields_PrimitiveSet" -> readObjectFields_PrimitiveSet
      [] fn = "readObjectFields_DrawElementsUInt" -> readObjectFields_DrawElementsUInt
      [] fn = "readObjectFields_Geometry" -> readObjectFields_Geometry
      [] fn = "readObjectFields_StateSet" -> readObjectFields_StateSet
      [] fn = "readObjectFields_StateAttribute" -> readObjectFields_StateAttribute
      [] fn = "readObjectFields_Material" -> readObjectFields_Material
      [] fn = "readObjectFields_Texture" -> readObjectFields_Texture
      [] fn = "readObjectFields_Texture2D" -> readObjectFields_Texture2D
      [] fn = "readObjectFields_DefaultUserDataContainer" ->
            readObjectFields_DefaultUserDataContainer
      [] fn = "readObjectFields_Array" -> readObjectFields_Array
      [] fn = "readObjectFields_Vec2Array" -> readObjectFields_Vec2Array
      [] fn = "readObjectFields_Vec3Array" -> readObjectFields_Vec3Array
      [] fn = "Data_read" -> Data_read

-----------------------------------------------------------------------------
(* The entity model: struct Object and the structs derived from it.        *)

\* the classes cls derives from, itself included
Bases(cls) ==
    CASE cls = "PagedLOD" -> {"PagedLOD", "LOD", "Group", "Node", "Object"}
      [] cls = "Group" -> {"Group", "Node", "Object"}
      [] cls = "Geode" -> {"Geode", "Node", "Object"}
      [] cls = "Geometry" -> {"Geometry", "Drawable", "Node", "Object"}
      [] cls = "StateSet" -> {"StateSet", "Object"}
      [] cls = "Material" -> {"Material", "StateAttribute", "Object"}
      [] cls = "Texture2D" -> {"Texture2D", "Texture", "StateAttribute", "Object"}
      [] cls = "DefaultUserDataContainer" ->
            {"DefaultUserDataContainer", "UserDataContainer", "Object"}
      [] cls = "DrawElementsUInt" ->
            {"DrawElementsUInt", "PrimitiveSet", "BufferData", "Object"}
      [] cls = "PrimitiveSet" -> {"PrimitiveSet", "BufferData", "Object"}
      [] cls = "Image" -> {"Image", "BufferData", "Object"}
      [] cls = "Vec2Array" -> {"Vec2Array", "Array", "Object"}
      [] cls = "Vec3Array" -> {"Vec3Array", "Array", "Object"}
      [] cls = "Vec4Array" -> {"Vec4Array", "Array", "Object"}

\* a std::vector after construction: its size and the entries written so far
\* (the entries after them hold their default value)
EmptyVector == [n |-> U32(0), items |-> <<>>]

\* a null pointer into the buffer
nullptr == <<>>

\* the uniqueId of an instance whose constructor is user-provided, before
\* the reader assigns it: indeterminate
Indeterminate == <<>>

Zero(n) == [i \in 1..n |-> 0]

NodeFields == [stateSet |-> 0]
GroupFields == NodeFields @@ [children |-> EmptyVector]
LODFields ==
    GroupFields @@ [centerMode |-> U32(0), userDefinedCenter |-> Zero(24),
                    userDefinedRadius |-> Zero(8), rangeList |-> EmptyVector]
PrimitiveSetFields == [mode |-> U32(0), indexData |-> nullptr, indexCount |-> U32(0)]
ArrayFields(arrayType, elementSize) ==
    [arrayType |-> arrayType, elementSize |-> elementSize, elementCount |-> U32(0),
     elementData |-> nullptr, binding |-> U32(0), normalize |-> FALSE]
Property(n) == <<FALSE, Zero(n), Zero(n)>>

\* the instance make_shared<cls>() creates: value-initialised (uniqueId zero)
\* unless the class has a user-provided constructor (the arrays)
NewObject(cls) ==
    CASE cls = "PagedLOD" ->
            [cls |-> cls, uniqueId |-> U32(0)] @@ LODFields
            @@ [rangeDataList |-> EmptyVector]
      [] cls = "Group" -> [cls |-> cls, uniqueId |-> U32(0)] @@ GroupFields
      [] cls = "Geode" ->
            [cls |-> cls, uniqueId |-> U32(0)] @@ NodeFields
            @@ [drawables |-> EmptyVector]
      [] cls = "Geometry" ->
            [cls |-> cls, uniqueId |-> U32(0)] @@ NodeFields
            @@ [primitives |-> EmptyVector, vertexData |-> 0, normalData |-> 0,
                colorData |-> 0, secondaryColorData |-> 0, fogCoordData |-> 0,
                texCoordDataList |-> EmptyVector]
      [] cls \in {"PrimitiveSet", "DrawElementsUInt"} ->
            [cls |-> cls, uniqueId |-> U32(0)] @@ PrimitiveSetFields
      [] cls = "StateSet" ->
            [cls |-> cls, uniqueId |-> U32(0), modes |-> <<>>, attributes |-> <<>>,
             textureModesList |-> <<>>, textureAttributesList |-> <<>>,
             renderingHint |-> U32(0)]
      [] cls = "Material" ->
            [cls |-> cls, uniqueId |-> U32(0), ambient |-> Property(16),
             diffuse |-> Property(16), specular |-> Property(16),
             emission |-> Property(16), shininess |-> Property(4)]
      [] cls = "Texture2D" ->
            [cls |-> cls, uniqueId |-> U32(0), wrapS |-> U32(33071),
             wrapT |-> U32(33071), wrapR |-> U32(33071), image |-> 0]
      [] cls = "Image" ->
            [cls |-> cls, uniqueId |-> U32(0), data |-> nullptr,
             dataLength |-> U32(0)]
      [] cls = "DefaultUserDataContainer" -> [cls |-> cls, uniqueId |-> U32(0)]
      [] cls = "Vec2Array" ->
            [cls |-> cls, uniqueId |-> Indeterminate] @@ ArrayFields(27, 8)
      [] cls = "Vec3Array" ->
            [cls |-> cls, uniqueId |-> Indeterminate] @@ ArrayFields(28, 12)
      [] cls = "Vec4Array" ->
            [cls |-> cls, uniqueId |-> Indeterminate] @@ ArrayFields(29, 16)

\* the value of a vector entry that resize() created
DefaultEntry(field) ==
    CASE field = "rangeDataList" ->
            [filename |-> <<>>, priorityOffset |-> U32(0), priorityScale |-> U32(0)]
      [] field = "rangeList" -> <<U32(0), U32(0)>>
      [] OTHER -> 0

\* std::vector::resize(n)
resize(vec, n) ==
    [n |-> n,
     items |-> IF Gt(n, Len(vec.items)) THEN vec.items
               ELSE SubSeq(vec.items, 1, Val(n))]

\* the entries 1..k of a vector, as far as they exist
Entries(vec, field, k) ==
    [j \in 1..k |-> IF j <= Len(vec.items) THEN vec.items[j] ELSE DefaultEntry(field)]

\* vec[i] = v, or vec[i].sub = v
assign(vec, field, i, sub, v) ==
    LET e == Entries(vec, field, IF i + 1 > Len(vec.items) THEN i + 1
                                 ELSE Len(vec.items))
    IN  [n |-> vec.n,
         items |-> IF sub = "" THEN [e EXCEPT ![i + 1] = v]
                   ELSE [e EXCEPT ![i + 1][sub] = v]]

\* vec[i], i from 0
At(vec, field, i) ==
    IF i + 1 <= Len(vec.items) THEN vec.items[i + 1] ELSE DefaultEntry(field)

-----------------------------------------------------------------------------
(* The machine.                                                            *)

Top == stack[Len(stack)]
Cur == Top.code[1]

\* the reader is about to execute an instruction op
Doing(op) == ret = "none" /\ stack # <<>> /\ Top.code # <<>> /\ Cur.op = op

Bind(regs, to, v) == IF to = "" THEN regs ELSE (to :> v) @@ regs

Goto(code, regs) ==
    stack' = [stack EXCEPT ![Len(stack)] =
                 [fn |-> @.fn, code |-> code, regs |-> regs, to |-> @.to]]

Continue(regs) == Goto(Tail(Top.code), regs)

\* throw Error(offset, msg), caught by Data::read, which writes *error and
\* returns nullptr
Raise(offset, msg, arg) ==
    /\ ret' = "null"
    /\ error' = [offset |-> offset, msg |-> msg, arg |-> arg]
    /\ stack' = <<>>

\* the outcome r of a read: the cursor moves and the value is bound, or the
\* Error is thrown and the cursor stays
Reading(r, to) ==
    /\ IF r.ok
       THEN /\ pos' = r.pos
            /\ Continue(Bind(Top.regs, to, r.value))
            /\ UNCHANGED <<ret, error>>
       ELSE /\ Raise(r.offset, r.msg, <<>>)
            /\ pos' = pos
    /\ UNCHANGED <<buffer, version, useBinaryBrackets, objects, images, arrays,
                   heap, rootObject>>

\* a step that changes locals and control only
Local(code, regs) ==
    /\ Goto(code, regs)
    /\ UNCHANGED <<buffer, pos, version, useBinaryBrackets, objects, images, arrays,
                   heap, ret, rootObject, error>>

\* a step that writes an instance
Store(h, field, v) ==
    /\ heap' = [heap EXCEPT ![h][field] = v]
    /\ Continue(Top.regs)
    /\ UNCHANGED <<buffer, pos, version, useBinaryBrackets, objects, images, arrays,
                   ret, rootObject, error>>

\* the value an assignment stores
ValueOf(from, regs) ==
    IF Len(from) = 1
    THEN IF from[1] = "_pos" THEN pos ELSE regs[from[1]]
    ELSE [k \in 1..Len(from) |-> regs[from[k]]]

DoRead == Doing("Rd") /\ Reading(read(pos, Cur.n), Cur.to)

DoReadBool == Doing("RdBool") /\ \E r \in readBool(pos) : Reading(r, Cur.to)

DoReadString == Doing("RdStr") /\ \E r \in {readString(pos)} : Reading(r, Cur.to)

DoReadN == Doing("RdN") /\ Reading(readN(pos, Cur.n, SizeT(Cur.count)), "")

DoBeginBracket ==
    /\ Doing("Begin")
    /\ pos' = ReadBeginBracket(pos)
    /\ Continue(Top.regs)
    /\ UNCHANGED <<buffer, version, useBinaryBrackets, objects, images, arrays,
                   heap, ret, rootObject, error>>

DoEndBracket ==
    /\ Doing("End")
    /\ pos' = ReadEndBracket(pos)
    /\ Continue(Top.regs)
    /\ UNCHANGED <<buffer, version, useBinaryBrackets, objects, images, arrays,
                   heap, ret, rootObject, error>>

\* the number of bytes of a payload: count * k in an unsigned type of w bytes
PayloadBytes(count, k, w) == Extend(Mul(Extend(count, w), k), SizeTBytes)

\* a payload skip on a cursor of the width of unsigned int: _pos wraps at 2^32
DoSkip_int ==
    /\ Doing("Skip")
    /\ LET count == IF Len(Cur.n) = 1 THEN Top.regs[Cur.n[1]]
                    ELSE heap[Top.regs[Cur.n[1]]][Cur.n[2]]
           k == IF Cur.of = "" THEN Cur.k ELSE heap[Top.regs[Cur.of]].elementSize
       IN  pos' = Extend(Add(SubSeq(pos, 1, U32Bytes),
                             SubSeq(PayloadBytes(count, k, Cur.w), 1, U32Bytes)),
                         SizeTBytes)
    /\ Continue(Top.regs)
    /\ UNCHANGED <<buffer, version, useBinaryBrackets, objects, images, arrays,
                   heap, ret, rootObject, error>>

\* _pos += count * k: the payload skips, none of which checks _length
DoSkip ==
    /\ Doing("Skip")
    /\ LET count == IF Len(Cur.n) = 1 THEN Top.regs[Cur.n[1]]
                    ELSE heap[Top.regs[Cur.n[1]]][Cur.n[2]]
           k == IF Cur.of = "" THEN Cur.k ELSE heap[Top.regs[Cur.of]].elementSize
       IN  pos' = Add(pos, PayloadBytes(count, k, Cur.w))
    /\ Continue(Top.regs)
    /\ UNCHANGED <<buffer, version, useBinaryBrackets, objects, images, arrays,
                   heap, ret, rootObject, error>>

DoIf ==
    /\ Doing("If")
    /\ Local((IF Holds(Cur.cond, Top.regs) THEN Cur.then ELSE Cur.else)
             \o Tail(Top.code), Top.regs)

\* for (unsigned int i = 0; ..
DoFor ==
    /\ Doing("For")
    /\ Local(<<I_Loop(Cur.i, Cur.n, Cur.body)>> \o Tail(Top.code),
             Bind(Top.regs, Cur.i, 0))

\* .. i < n; ..) { body }
DoLoop ==
    /\ Doing("Loop")
    /\ Local(IF Gt(Top.regs[Cur.n], Top.regs[Cur.i])
             THEN Cur.body \o <<[op |-> "Inc", i |-> Cur.i]>> \o Top.code
             ELSE Tail(Top.code),
             Top.regs)

\* .. ++i
DoInc ==
    /\ Doing("Inc")
    /\ Local(Tail(Top.code), Bind(Top.regs, Cur.i, Top.regs[Cur.i] + 1))

DoCall ==
    /\ Doing("Call")
    /\ stack' = Append([stack EXCEPT ![Len(stack)].code = Tail(@)],
                       [fn |-> Cur.fn,
                        code |-> Body(Cur.fn),
                        regs |-> [a \in {Cur.args[k] : k \in 1..Len(Cur.args)}
                                    |-> Top.regs[a]],
                        to |-> Cur.to])
    /\ UNCHANGED <<buffer, pos, version, useBinaryBrackets, objects, images, arrays,
                   heap, ret, rootObject, error>>

\* return, or the end of a void function
DoReturn ==
    /\ ret = "none"
    /\ Len(stack) > 1
    /\ IF Top.code = <<>> THEN TRUE ELSE Cur.op = "Ret"
    /\ LET value == IF Top.code = <<>> THEN 0
                    ELSE IF Cur.r = "" THEN 0 ELSE Top.regs[Cur.r]
           caller == stack[Len(stack) - 1]
       IN  stack' = [SubSeq(stack, 1, Len(stack) - 1) EXCEPT ![Len(stack) - 1] =
                        [fn |-> caller.fn,
                         code |-> caller.code,
                         regs |-> Bind(caller.regs, Top.to, value),
                         to |-> caller.to]]
    /\ UNCHANGED <<buffer, pos, version, useBinaryBrackets, objects, images, arrays,
                   heap, ret, rootObject, error>>

DoThrow ==
    /\ Doing("Throw")
    /\ Raise(pos, Cur.msg, IF Cur.arg = "" THEN <<>> ELSE Top.regs[Cur.arg])
    /\ UNCHANGED <<buffer, pos, version, useBinaryBrackets, objects, images, arrays,
                   heap, rootObject>>

DoNew ==
    /\ Doing("New")
    /\ heap' = Append(heap, NewObject(Cur.cls))
    /\ Continue(Bind(Top.regs, Cur.to, Len(heap) + 1))
    /\ UNCHANGED <<buffer, pos, version, useBinaryBrackets, objects, images, arrays,
                   ret, rootObject, error>>

\* std::dynamic_pointer_cast<base>(p)
dynamic_pointer_cast(base, p) ==
    IF p # 0 /\ base \in Bases(heap[p].cls) THEN p ELSE 0

DoCast ==
    /\ Doing("Cast")
    /\ Local(Tail(Top.code),
             Bind(Top.regs, Cur.to, dynamic_pointer_cast(Cur.base, Top.regs[Cur.r])))

DoMember ==
    /\ Doing("Member")
    /\ IF Cur.m = "_version"
       THEN version' = Top.regs[Cur.from] /\ UNCHANGED useBinaryBrackets
       ELSE useBinaryBrackets' = Top.regs[Cur.from] /\ UNCHANGED version
    /\ Continue(Top.regs)
    /\ UNCHANGED <<buffer, pos, objects, images, arrays, heap, ret, rootObject, error>>

DoLet ==
    /\ Doing("Let")
    /\ Local(Tail(Top.code), Bind(Top.regs, Cur.to, Holds(Cur.cond, Top.regs)))

DoSet ==
    /\ Doing("Set")
    /\ Store(Top.regs[Cur.obj], Cur.field, ValueOf(Cur.from, Top.regs))

DoResize ==
    /\ Doing("Resize")
    /\ Store(Top.regs[Cur.obj], Cur.field,
             resize(heap[Top.regs[Cur.obj]][Cur.field], Top.regs[Cur.n]))

DoSetElem ==
    /\ Doing("SetElem")
    /\ Store(Top.regs[Cur.obj], Cur.field,
             assign(heap[Top.regs[Cur.obj]][Cur.field], Cur.field, Top.regs[Cur.i],
                    Cur.sub, ValueOf(Cur.from, Top.regs)))

DoEmplaceBack ==
    /\ Doing("EmplaceBack")
    /\ IF Cur.obj = ""
       THEN Local(Tail(Top.code),
                  Bind(Top.regs, Cur.field,
                       Append(Top.regs[Cur.field], ValueOf(Cur.from, Top.regs))))
       ELSE Store(Top.regs[Cur.obj], Cur.field,
                  Append(heap[Top.regs[Cur.obj]][Cur.field],
                         ValueOf(Cur.from, Top.regs)))

DoLocal ==
    /\ Doing("Local")
    /\ Local(Tail(Top.code), Bind(Top.regs, Cur.to, <<>>))

Registry(map) ==
    CASE map = "_objects" -> objects
      [] map = "_images" -> images
      [] map = "_arrays" -> arrays

\* map.find(key): the instance, or 0 for end()
find(map, key) == IF key \in DOMAIN map THEN map[key] ELSE 0

DoFind ==
    /\ Doing("Find")
    /\ Local(Tail(Top.code),
             Bind(Top.regs, Cur.to, find(Registry(Cur.map), Top.regs[Cur.key])))

\* map[key] = instance
insert(map, key, h) == (key :> h) @@ map

DoPut ==
    /\ Doing("Put")
    /\ LET m == insert(Registry(Cur.map), Top.regs[Cur.key], Top.regs[Cur.from])
       IN  /\ objects' = IF Cur.map = "_objects" THEN m ELSE objects
           /\ images' = IF Cur.map = "_images" THEN m ELSE images
           /\ arrays' = IF Cur.map = "_arrays" THEN m ELSE arrays
    /\ Continue(Top.regs)
    /\ UNCHANGED <<buffer, pos, version, useBinaryBrackets, heap, ret, rootObject,
                   error>>

\* a Data::read that returns the data whenever the reader has ended, with a
\* null root as well
DoFinish_any_root ==
    /\ Doing("Finish")
    /\ IF ended
       THEN ret' = "data" /\ rootObject' = Top.regs["rootObject"]
       ELSE ret' = "null" /\ rootObject' = 0
    /\ stack' = <<>>
    /\ UNCHANGED <<buffer, pos, version, useBinaryBrackets, objects, images, arrays,
                   heap, error>>

\* a Data::read that returns the data whenever the root is not null
DoFinish_any_cursor ==
    /\ Doing("Finish")
    /\ IF Top.regs["rootObject"] # 0
       THEN ret' = "data" /\ rootObject' = Top.regs["rootObject"]
       ELSE ret' = "null" /\ rootObject' = 0
    /\ stack' = <<>>
    /\ UNCHANGED <<buffer, pos, version, useBinaryBrackets, objects, images, arrays,
                   heap, error>>

\* Data::read: if (data->rootObject && reader.ended()) return data;
\* else return nullptr;
DoFinish ==
    /\ Doing("Finish")
    /\ IF Top.regs["rootObject"] # 0 /\ ended
       THEN ret' = "data" /\ rootObject' = Top.regs["rootObject"]
       ELSE ret' = "null" /\ rootObject' = 0
    /\ stack' = <<>>
    /\ UNCHANGED <<buffer, pos, version, useBinaryBrackets, objects, images, arrays,
                   heap, error>>

-----------------------------------------------------------------------------
(* Input buffers: streams written in the format the reader reads, for a    *)
(* format version v, with (br) or without binary brackets.                 *)

RECURSIVE Concat(_)
Concat(ss) == IF ss = <<>> THEN <<>> ELSE Head(ss) \o Concat(Tail(ss))

W_Str(str) == U32(Len(str)) \o str
W_Header(kind, ver, attributes, compressor) ==
    Magic \o kind \o ver \o attributes \o W_Str(compressor)
W_Hdr(v, br) == W_Header(U32(1), U32(v), U32(IF br THEN 4 ELSE 0), s_0)
W_Bracket(v, br) == IF br THEN Zero(IF v > 148 THEN 8 ELSE 4) ELSE <<>>
W_Null == W_Str(<<>>)
W_False == <<0>>
W_True == <<1>>
\* an object reference: class tag, bracket, identity (, body on first sight)
W_Ref(tag, v, br, id) == W_Str(tag) \o W_Bracket(v, br) \o U32(id)
W_Object(tag, v, br, id, body) == W_Ref(tag, v, br, id) \o body
\* a flag-gated object
W_Opt(obj) == IF obj = <<>> THEN W_False ELSE W_True \o obj
\* a count, a bracket and the entries
W_List(v, br, entries) == U32(Len(entries)) \o W_Bracket(v, br) \o Concat(entries)
W_OptList(v, br, entries) ==
    IF entries = <<>> THEN W_False ELSE W_True \o W_List(v, br, entries)

W_ObjectLayer(v, udc) ==
    W_Str(<<110>>) \o U32(0) \o (IF v < 77 THEN (IF udc = <<>> THEN W_Null ELSE udc)
                                 ELSE W_Opt(udc))
W_NodeLayer(v, br, bound, stateSet) ==
    (IF bound THEN W_True \o W_Bracket(v, br) \o Zero(28) ELSE W_False)
    \o <<0, 0, 0, 0>> \o W_True \o <<255, 255, 255, 255>>
    \o (IF v < 77 THEN W_OptList(v, br, IF bound THEN <<W_Str(<<100>>)>> ELSE <<>>)
        ELSE <<>>)
    \o W_Opt(stateSet)
W_Group(v, br, id, children) ==
    W_Object(osg_Group, v, br, id,
             W_ObjectLayer(v, <<>>) \o W_NodeLayer(v, br, FALSE, <<>>)
             \o W_OptList(v, br, children))
W_Geode(v, br, id, stateSet, drawables) ==
    W_Object(osg_Geode, v, br, id,
             W_ObjectLayer(v, <<>>) \o W_NodeLayer(v, br, TRUE, stateSet)
             \o W_OptList(v, br, drawables))
W_LODLayer(v, br, ranges) ==
    U32(1) \o W_True \o Zero(32) \o U32(0) \o W_OptList(v, br, ranges)
W_PagedLOD(v, br, id, udc, files, priorities, children) ==
    W_Object(osg_PagedLOD, v, br, id,
             W_ObjectLayer(v, udc) \o W_NodeLayer(v, br, FALSE, <<>>)
             \o W_LODLayer(v, br, <<Zero(8)>>)
             \o W_True \o W_True \o W_Str(<<47>>)
             \o (IF v < 70 THEN U32(0) ELSE <<>>) \o U32(0) \o W_False
             \o W_True \o W_List(v, br, [i \in 1..Len(files) |-> W_Str(files[i])])
             \o W_List(v, br, priorities)
             \o W_OptList(v, br, children))
W_DrawableLayer(stateSet, bound) ==
    W_Opt(stateSet) \o (IF bound THEN W_True \o Zero(48) ELSE W_False)
    \o <<0, 0>> \o <<1, 1, 0>> \o <<0, 0, 0, 0>>
\* the layers of a Geometry before its own
W_GeometryBase(v, br, stateSet) ==
    W_ObjectLayer(v, <<>>)
    \o (IF v >= 154 THEN W_NodeLayer(v, br, FALSE, stateSet) ELSE <<>>)
    \o W_DrawableLayer(stateSet, TRUE)
\* version >= 112: primitive sets and arrays are objects
W_Geometry(v, br, id, stateSet, primitives, arrays5, texCoords, attribs) ==
    W_Object(osg_Geometry, v, br, id,
             W_GeometryBase(v, br, stateSet)
             \o U32(Len(primitives)) \o Concat(primitives)
             \o Concat([i \in 1..5 |-> W_Opt(arrays5[i])])
             \o U32(Len(texCoords)) \o Concat(texCoords)
             \o U32(Len(attribs)) \o Concat(attribs))
W_DrawElementsUInt(v, br, id, mode, indexCount, indices) ==
    W_Object(osg_DrawElementsUInt, v, br, id,
             W_ObjectLayer(v, <<>>) \o U32(1) \o U32(mode) \o indexCount \o indices)
W_VecArray(tag, v, br, id, elementCount, elements) ==
    W_Object(tag, v, br, id,
             W_ObjectLayer(v, <<>>) \o U32(4) \o W_False \o W_False
             \o elementCount \o elements)
\* version < 112: primitive sets and arrays are written in line
W_Primitive(mode, indexCount, indices) == U32(1) \o U32(mode) \o indexCount \o indices
W_InlineArray(id, type, elementCount, elements) ==
    W_True \o U32(id) \o U32(type) \o elementCount \o elements
    \o W_False \o U32(4) \o U32(1)
W_InlineRef(id) == W_True \o U32(id)
W_OptInline(v, br, arr) ==
    IF arr = <<>> THEN W_False ELSE W_True \o W_Bracket(v, br) \o arr
W_InlineList(v, br, arrs) ==
    W_OptList(v, br, [i \in 1..Len(arrs) |-> W_Bracket(v, br) \o arrs[i]])
W_LegacyGeometry(v, br, id, stateSet, primitives, arrays5, texCoords, attribs) ==
    W_Object(osg_Geometry, v, br, id,
             W_GeometryBase(v, br, stateSet)
             \o W_List(v, br, primitives)
             \o Concat([i \in 1..5 |-> W_OptInline(v, br, arrays5[i])])
             \o W_InlineList(v, br, texCoords)
             \o W_InlineList(v, br, attribs)
             \o W_True)
W_Pairs(v, br, pairs) == W_OptList(v, br, pairs)
W_StateSet(v, br, id, modes, attributes, texModes, texAttributes, uniforms) ==
    W_Object(osg_StateSet, v, br, id,
             W_ObjectLayer(v, <<>>)
             \o W_OptList(v, br, modes)
             \o W_OptList(v, br, attributes)
             \o W_OptList(v, br, texModes)
             \o W_OptList(v, br, texAttributes)
             \o W_OptList(v, br, uniforms)
             \o U32(2) \o U32(0) \o U32(10) \o W_Str(<<98>>) \o W_True
             \o <<0, 0>>
             \o (IF v >= 151
                 THEN W_OptList(v, br, <<W_Str(<<100>>) \o W_Str(<<>>) \o U32(1)>>)
                 ELSE <<>>))
W_Material(v, br, id) ==
    W_Object(osg_Material, v, br, id,
             W_ObjectLayer(v, <<>>) \o <<0, 0>> \o U32(0)
             \o W_True \o W_True \o Zero(32)
             \o W_False
             \o W_True \o W_False \o Zero(32)
             \o W_False
             \o W_True \o W_True \o Zero(8))
W_Image(v, id, size, data) ==
    W_True \o (IF v > 94 THEN W_Str(<<105>>) ELSE <<>>) \o U32(id)
    \o W_Str(<<116>>) \o U32(0) \o U32(1) \o size \o data \o W_ObjectLayer(v, <<>>)
W_ImageRef(v, id) ==
    W_True \o (IF v > 94 THEN W_Str(<<105>>) ELSE <<>>) \o U32(id)
W_Texture2D(v, br, id, image) ==
    W_Object(osg_Texture2D, v, br, id,
             W_ObjectLayer(v, <<>>) \o <<0, 0>>
             \o W_True \o U32(10497) \o W_False \o W_True \o U32(10497)
             \o W_True \o U32(9729) \o W_False
             \o Zero(4) \o <<0, 0, 0, 1>> \o Zero(32) \o Zero(4) \o Zero(4)
             \o W_True \o U32(6407) \o W_False \o W_False
             \o W_False \o Zero(12)
             \o (IF v >= 95 /\ v < 154 THEN W_True \o Zero(24) ELSE <<>>)
             \o (IF v >= 98 THEN W_True \o W_Str(<<114>>) ELSE <<>>)
             \o (IF v >= 155 THEN Zero(12) ELSE <<>>)
             \o image \o U32(2) \o U32(2))
W_UserDataContainer(v, br, id, userData, userObjects) ==
    W_Object(osg_DefaultUserDataContainer, v, br, id,
             W_ObjectLayer(v, <<>>)
             \o (IF userData = <<>> THEN W_False
                 ELSE W_True \o W_Bracket(v, br) \o userData)
             \o W_OptList(v, br, <<W_Str(<<100>>)>>)
             \o W_OptList(v, br, userObjects))

-----------------------------------------------------------------------------
(* Scenes.                                                                 *)

zlib == <<122, 108, 105, 98>>
osg_Foo == <<111, 115, 103, 58, 58, 70, 111, 111>>    \* "osg::Foo", not a class
a_osgb == <<97, 46, 111, 115, 103, 98>>
b_osgb == <<98, 46, 111, 115, 103, 98>>

\* three indices, three Vec3f, three Vec2f
Indices3 == U32(0) \o U32(1) \o U32(2)
Vec3x3 == [i \in 1..36 |-> i]
Vec2x3 == [i \in 1..24 |-> 100 + i]

\* a Geometry with one primitive set and vertex / tex-coord arrays, in the
\* form of its version
SceneGeometry(v, br, id, stateSet) ==
    IF v < 112
    THEN W_LegacyGeometry(v, br, id, stateSet,
            <<W_Primitive(4, U32(3), Indices3)>>,
            <<W_InlineArray(id + 1, 16, U32(3), Vec3x3), <<>>, W_InlineRef(id + 1),
              <<>>, <<>>>>,
            <<W_InlineArray(id + 2, 15, U32(3), Vec2x3)>>, <<>>)
    ELSE W_Geometry(v, br, id, stateSet,
            <<W_DrawElementsUInt(v, br, id + 3, 4, U32(3), Indices3)>>,
            <<W_VecArray(osg_Vec3Array, v, br, id + 1, U32(3), Vec3x3),
              <<>>, W_Ref(osg_Vec3Array, v, br, id + 1), <<>>, <<>>>>,
            <<W_VecArray(osg_Vec2Array, v, br, id + 2, U32(3), Vec2x3)>>, <<>>)

\* a StateSet with a Material, a null attribute, and a Texture2D with its
\* Image
SceneStateSet(v, br, id) ==
    W_StateSet(v, br, id,
        <<U32(2896) \o U32(1)>>,
        <<W_Material(v, br, id + 1) \o U32(1), W_Null \o U32(0)>>,
        <<W_List(v, br, <<U32(3553) \o U32(1)>>)>>,
        <<W_List(v, br,
                 <<W_Texture2D(v, br, id + 2,
                               W_Image(v, id + 3, U32(5), <<1, 2, 3, 4, 5>>))
                   \o U32(1)>>)>>,
        <<W_Null \o U32(0)>>)

\* a PagedLOD with a user-data container, two filenames and three priority
\* pairs, over a Group of a Geode with a StateSet and a Geometry, a back
\* reference to the Geode and a null child
SceneTile(v, br) ==
    W_Hdr(v, br)
    \o W_PagedLOD(v, br, 1,
          W_UserDataContainer(v, br, 20, W_Null, <<W_Null>>),
          <<a_osgb, b_osgb>>,
          << <<0, 0, 0, 0, 0, 0, 128, 63>>,          \* 0.0, 1.0
             <<0, 0, 0, 63, 0, 0, 192, 63>>,         \* 0.5, 1.5
             <<0, 0, 128, 62, 0, 0, 160, 63>> >>,    \* 0.25, 1.25
          << W_Group(v, br, 2,
                << W_Geode(v, br, 3, SceneStateSet(v, br, 4),
                           <<SceneGeometry(v, br, 10,
                                           W_Ref(osg_StateSet, v, br, 4))>>),
                   W_Ref(osg_Geode, v, br, 3),
                   W_Null >>) >>)

\* a Geometry whose normalData and colorData refer to the Vec3Array 7 that
\* vertexData holds
SceneShared(v, br) ==
    W_Hdr(v, br)
    \o W_Geometry(v, br, 1, <<>>, <<>>,
          <<W_VecArray(osg_Vec3Array, v, br, 7, U32(1), Zero(12)),
            W_Ref(osg_Vec3Array, v, br, 7), W_Ref(osg_Vec3Array, v, br, 7),
            <<>>, <<>>>>,
          <<>>, <<>>)

\* a Group 5 whose only child is written as another Group 5, body included
SceneNested(v, br) ==
    W_Hdr(v, br) \o W_Group(v, br, 5, <<W_Group(v, br, 5, <<>>)>>)

\* a Geode 1 whose StateSet holds two textures that share one Image, the
\* Image written with the identity of the Geode
SceneImage(v, br) ==
    W_Hdr(v, br)
    \o W_Geode(v, br, 1,
          W_StateSet(v, br, 2, <<>>,
             << W_Texture2D(v, br, 3, W_Image(v, 1, U32(2), <<9, 9>>)) \o U32(1),
                W_Texture2D(v, br, 4, W_ImageRef(v, 1)) \o U32(1) >>,
             <<>>, <<>>, <<>>),
          <<>>)

\* a legacy Geometry with two primitive sets (one of them empty)
SceneLegacy(v, br) ==
    W_Hdr(v, br)
    \o W_LegacyGeometry(v, br, 1, <<>>,
          <<W_Primitive(4, U32(1), U32(0)), W_Primitive(1, U32(0), <<>>)>>,
          <<W_InlineArray(2, 17, U32(1), Zero(16)), <<>>, <<>>, <<>>, <<>>>>,
          <<W_InlineArray(3, 15, U32(1), Zero(8)), W_InlineRef(3)>>,
          <<W_InlineArray(4, 16, U32(0), <<>>)>>)

\* a legacy Geometry whose vertex array announces `count` elements of the
\* type `type` and carries `elements`
SceneCount(v, br, type, count, elements) ==
    W_Hdr(v, br)
    \o W_LegacyGeometry(v, br, 1, <<>>, <<>>,
          <<W_InlineArray(2, type, count, elements), <<>>, <<>>, <<>>, <<>>>>,
          <<>>, <<>>)

\* a Vec2Array / Vec3Array object announcing `count` elements
SceneArray(v, br, tag, count, elements) ==
    W_Hdr(v, br) \o W_VecArray(tag, v, br, 1, count, elements)

\* a DrawElementsUInt announcing `count` indices
SceneIndices(v, br, count, indices) ==
    W_Hdr(v, br) \o W_DrawElementsUInt(v, br, 1, 4, count, indices)

\* a Group whose second child carries the tag `tag` and the identity id
SceneTag(v, br, tag, id) ==
    W_Hdr(v, br)
    \o W_Group(v, br, 1, <<W_Geode(v, br, 2, <<>>, <<>>), W_Ref(tag, v, br, id)>>)

\* the format versions around every version test of the reader
Versions == {69, 76, 94, 100, 111, 112, 148, 149, 153, 154, 155}

Tiles == {SceneTile(v, br) : v \in Versions, br \in BOOLEAN}

\* scenes the reader accepts
SmallScenes ==
    {SceneShared(120, br) : br \in BOOLEAN}
    \cup {SceneNested(v, TRUE) : v \in {76, 149}}
    \cup {SceneImage(v, br) : v \in {94, 100}, br \in BOOLEAN}
    \cup {SceneLegacy(v, br) : v \in {76, 111}, br \in BOOLEAN}
    \cup {SceneArray(112, TRUE, osg_Vec2Array, U32(1), Zero(8)),
          SceneArray(149, TRUE, osg_Vec3Array, U32(0), <<>>),
          SceneIndices(149, TRUE, U32(2), Zero(8)),
          SceneCount(100, TRUE, 16, U32(2), Zero(24)),
          SceneTag(100, TRUE, osg_Geode, 2),
          SceneTag(100, FALSE, osg_Group, 2)}

\* 2^28, 2^29 and 2^30 as unsigned int
Pow2(k) == IF k = 28 THEN <<0, 0, 0, 16>>
           ELSE IF k = 29 THEN <<0, 0, 0, 32>> ELSE <<0, 0, 0, 64>>

\* payloads announced larger than the bytes that follow
Oversized ==
    {SceneCount(100, br, 15, Pow2(29), <<>>) : br \in BOOLEAN}
    \cup {SceneCount(100, FALSE, 17, Pow2(28), <<>>),
          SceneCount(100, FALSE, 16, Pow2(30), <<>>),
          SceneCount(100, FALSE, 16, U32(3), Zero(24)),
          SceneCount(100, FALSE, 15, <<255, 255, 255, 255>>, Zero(8)),
          SceneArray(112, TRUE, osg_Vec2Array, Pow2(29), <<>>),
          SceneArray(112, FALSE, osg_Vec3Array, Pow2(30), <<>>),
          SceneArray(112, FALSE, osg_Vec3Array, U32(2), Zero(23)),
          SceneArray(112, FALSE, osg_Vec2Array, <<255, 255, 255, 255>>, Zero(8)),
          SceneIndices(149, TRUE, Pow2(30), <<>>),
          SceneIndices(149, FALSE, U32(2), Zero(7)),
          SceneIndices(149, FALSE, <<255, 255, 255, 255>>, Zero(8))}

\* class tags the reader does not know
Unsupported ==
    {SceneTag(100, br, osg_Foo, id) : br \in BOOLEAN, id \in {1, 2, 3}}
    \cup {W_Hdr(100, br) \o W_Ref(osg_Foo, 100, br, 9) : br \in BOOLEAN}
    \cup {W_Hdr(100, FALSE) \o W_Str(<<79>>) \o U32(0)}

\* the bytes appended after a complete scene
MaxTrailing == 2
Trailing ==
    {s \o Zero(n) : s \in SmallScenes, n \in 1..MaxTrailing}
    \cup {s \o <<n>> : s \in SmallScenes, n \in 1..MaxTrailing}

\* the prefixes of a stream
Prefixes(s) == {SubSeq(s, 1, n) : n \in 0..(Len(s) - 1)}
Truncated ==
    Prefixes(SceneShared(120, TRUE))
    \cup Prefixes(SceneLegacy(111, TRUE))
    \cup Prefixes(SceneImage(100, FALSE))
    \cup Prefixes(SceneIndices(149, TRUE, U32(2), Zero(8)))

\* headers: every container kind, attribute word and compressor name
MaxKind == 4
MaxAttributes == 7
Kinds == {U32(k) : k \in 0..MaxKind} \cup {<<0, 0, 1, 0>>, <<255, 255, 255, 255>>}
AttributeWords ==
    {U32(x) : x \in 0..MaxAttributes} \cup {<<0, 1, 0, 0>>, <<4, 0, 0, 128>>}
Compressors == {s_0, zlib, <<>>, <<49>>, <<48, 48>>}
Headers ==
    {W_Header(k, U32(100), x, c) \o W_Null :
        k \in Kinds, x \in AttributeWords, c \in Compressors}
\* a magic that differs from the format's in one byte, or is all zero
BadMagic ==
    UNION {{[W_Hdr(100, FALSE) \o W_Null EXCEPT ![i] = d] :
                d \in {0, 255, (Magic[i] + 1) % 256}} : i \in 1..8}
    \cup {Zero(8) \o SubSeq(W_Hdr(100, FALSE) \o W_Null, 9, 29)}
    \cup {SubSeq(Zero(8), 1, n) : n \in 0..8}
\* the scene of a null root: the header, a bracket prefix 0, an empty class
\* string
EmptyScene == W_Header(U32(1), U32(100), U32(4), s_0) \o U32(0) \o W_Str(<<>>)
NullRoots ==
    {EmptyScene}
    \cup {W_Hdr(v, br) \o W_Null : v \in {100, 149}, br \in BOOLEAN}
    \cup {W_Hdr(149, TRUE) \o Zero(8) \o W_Null}

\* a stream with the byte at offset i (from 0) replaced by d
Poke(s, i, d) == [s EXCEPT ![i + 1] = d]

\* scenes with one byte after the header that is neither 0 nor 1
BadBools ==
    {Poke(SceneNested(76, TRUE), i, 2) : i \in 25..(Len(SceneNested(76, TRUE)) - 1)}
    \cup {Poke(SceneArray(112, TRUE, osg_Vec2Array, U32(1), Zero(8)), i, d) :
             i \in 25..(Len(SceneArray(112, TRUE, osg_Vec2Array, U32(1), Zero(8))) - 1),
             d \in {3, 255}}

\* the headers readHeader accepts, and their proper prefixes
ValidHeaders ==
    {W_Header(k, U32(v), x, s_0) :
        k \in Kinds \ {U32(0)}, v \in {100, 149},
        x \in {U32(0), U32(4), <<0, 1, 0, 0>>, <<4, 0, 0, 128>>}}
TruncatedHeaders == UNION {Prefixes(h) : h \in ValidHeaders}

\* the i-th filename and priority pair (i from 0) of a RangeData block
Filename(i) == <<97 + i>> \o SubSeq(a_osgb, 2, 6)
PriorityOffset(i) == <<i, 0, 128, 62>>
PriorityScale(i) == <<i, 0, 160, 63>>

\* a PagedLOD whose RangeData block has fsize filenames and psize priority
\* pairs
RangeScene(v, br, fsize, psize) ==
    W_Hdr(v, br)
    \o W_PagedLOD(v, br, 1, <<>>,
          [i \in 1..fsize |-> Filename(i - 1)],
          [i \in 1..psize |-> PriorityOffset(i - 1) \o PriorityScale(i - 1)],
          <<>>)

MaxRange == 3
\* the scenes of every block of up to MaxRange filenames and pairs, with
\* the sizes of the block
RangeBlocks ==
    {[scene |-> RangeScene(v, br, fsize, psize), fsize |-> fsize, psize |-> psize] :
        v \in {69, 100}, br \in BOOLEAN, fsize \in 0..MaxRange, psize \in 0..MaxRange}
RangeScenes == {k.scene : k \in RangeBlocks}

\* the content of a Geometry: primitive sets [mode, indexCount, bytes], the
\* five arrays and the tex-coord arrays, each array [arrayType, elementCount,
\* bytes] or <<>> for none
NoArray == <<>>
Vec3Content(n, d) == [arrayType |-> 28, elementCount |-> U32(n), bytes |-> [i \in 1..(12 * n) |-> d]]
Vec2Content(n, d) == [arrayType |-> 27, elementCount |-> U32(n), bytes |-> [i \in 1..(8 * n) |-> d]]
Triangle == [mode |-> U32(4), indexCount |-> U32(3), bytes |-> Indices3]
Line == [mode |-> U32(1), indexCount |-> U32(2), bytes |-> U32(0) \o U32(1)]
GeometryContents ==
    { [primitives |-> <<Triangle>>,
       arrays |-> <<Vec3Content(3, 7), NoArray, NoArray, NoArray, NoArray>>,
       texCoords |-> <<Vec2Content(3, 8)>>],
      [primitives |-> <<Triangle, Line>>,
       arrays |-> <<Vec3Content(3, 7), Vec3Content(3, 9), NoArray, NoArray, NoArray>>,
       texCoords |-> <<>>],
      [primitives |-> <<Line>>,
       arrays |-> <<Vec3Content(2, 1), Vec3Content(1, 2), Vec3Content(1, 3),
                    Vec3Content(1, 4), Vec2Content(2, 5)>>,
       texCoords |-> <<Vec2Content(2, 6), Vec2Content(2, 7)>>],
      [primitives |-> <<>>,
       arrays |-> <<NoArray, NoArray, NoArray, NoArray, NoArray>>,
       texCoords |-> <<>>] }

\* the content as a legacy Geometry (version < 112): primitive sets and
\* arrays in line, the array types 15 and 16 of ReadArray
LegacyForm(v, br, c) ==
    W_Hdr(v, br)
    \o W_LegacyGeometry(v, br, 1, <<>>,
          [i \in 1..Len(c.primitives) |->
              W_Primitive(Val(c.primitives[i].mode), c.primitives[i].indexCount,
                          c.primitives[i].bytes)],
          [i \in 1..5 |->
              IF c.arrays[i] = NoArray THEN <<>>
              ELSE W_InlineArray(10 + i, c.arrays[i].arrayType - 12,
                                 c.arrays[i].elementCount, c.arrays[i].bytes)],
          [i \in 1..Len(c.texCoords) |->
              W_InlineArray(20 + i, c.texCoords[i].arrayType - 12,
                            c.texCoords[i].elementCount, c.texCoords[i].bytes)],
          <<>>)

\* the content as a Geometry of version >= 112: primitive sets and arrays
\* are objects
ArrayTag(a) == IF a.arrayType = 27 THEN osg_Vec2Array ELSE osg_Vec3Array
ObjectForm(v, br, c) ==
    W_Hdr(v, br)
    \o W_Geometry(v, br, 1, <<>>,
          [i \in 1..Len(c.primitives) |->
              W_DrawElementsUInt(v, br, 30 + i, Val(c.primitives[i].mode),
                                 c.primitives[i].indexCount, c.primitives[i].bytes)],
          [i \in 1..5 |->
              IF c.arrays[i] = NoArray THEN <<>>
              ELSE W_VecArray(ArrayTag(c.arrays[i]), v, br, 10 + i,
                              c.arrays[i].elementCount, c.arrays[i].bytes)],
          [i \in 1..Len(c.texCoords) |->
              W_VecArray(ArrayTag(c.texCoords[i]), v, br, 20 + i,
                         c.texCoords[i].elementCount, c.texCoords[i].bytes)],
          <<>>)

\* each content in both forms, at the versions 111 and 112
GeometryPairs ==
    {[content |-> c, legacy |-> LegacyForm(111, br, c), object |-> ObjectForm(112, br, c)] :
        c \in GeometryContents, br \in BOOLEAN}
GeometryForms == {k.legacy : k \in GeometryPairs} \cup {k.object : k \in GeometryPairs}

\* a Group announcing `count` children, followed by `tail`
SceneChildren(v, br, count, tail) ==
    W_Hdr(v, br)
    \o W_Object(osg_Group, v, br, 5,
                W_ObjectLayer(v, <<>>) \o W_NodeLayer(v, br, FALSE, <<>>)
                \o W_True \o count \o W_Bracket(v, br) \o tail)
\* a Group whose child and grandchild carry the Group's own identity
SceneSelf(v, br) ==
    W_Hdr(v, br)
    \o W_Group(v, br, 5, <<W_Group(v, br, 5, <<W_Group(v, br, 5, <<>>)>>)>>)
\* a child that is a bare reference to the enclosing Group's identity
SceneSelfRef(v, br) ==
    W_Hdr(v, br) \o W_Group(v, br, 5, <<W_Ref(osg_Group, v, br, 5)>>)
\* loops announced far longer than the buffer, and objects that refer to the
\* identity of an object still being read
Looping ==
    {SceneChildren(100, br, <<255, 255, 255, 255>>, Zero(4 * k)) :
        br \in BOOLEAN, k \in 0..2}
    \cup {SceneSelf(v, br) : v \in {76, 149}, br \in BOOLEAN}
    \cup {SceneSelfRef(v, br) : v \in {76, 149}, br \in BOOLEAN}

\* a Geometry of version >= 112 and < 154 around a Drawable layer, with no
\* primitive sets and no arrays
SceneDrawable(v, br, layer) ==
    W_Hdr(v, br)
    \o W_Object(osg_Geometry, v, br, 1,
                W_ObjectLayer(v, <<>>) \o layer
                \o U32(0) \o Zero(5) \o U32(0) \o U32(0))

\* the i-th optional object of a Drawable layer: an empty Group of identity
\* 10 + i when i is among those present
Callback(v, br, present, i) ==
    W_Opt(IF i \in present THEN W_Group(v, br, 10 + i, <<>>) ELSE <<>>)

\* a Drawable layer in the order of the OpenSceneGraph serializer: state set,
\* initial bound, computeBoundingBoxCallback and shape, the three booleans,
\* then the update, event, cull and draw callbacks
W_DrawableOrdered(v, br, bound, present, bools) ==
    W_False \o (IF bound THEN W_True \o Zero(48) ELSE W_False)
    \o Callback(v, br, present, 1) \o Callback(v, br, present, 2)
    \o bools
    \o Callback(v, br, present, 3) \o Callback(v, br, present, 4)
    \o Callback(v, br, present, 5) \o Callback(v, br, present, 6)

\* a Drawable layer with four optional objects and then the three booleans
W_DrawableFourThenBooleans(v, br, bound, present, bools) ==
    W_False \o (IF bound THEN W_True \o Zero(48) ELSE W_False)
    \o Callback(v, br, present, 1) \o Callback(v, br, present, 2)
    \o Callback(v, br, present, 3) \o Callback(v, br, present, 4)
    \o bools

\* which of the optional objects are present: none, one, two, or all six
Presences == {s \in SUBSET (1..6) : Cardinality(s) \in {0, 1, 2, 6}}
DrawableBlocks ==
    {[scene |-> SceneDrawable(112, br, W_DrawableOrdered(112, br, br, s,
                                                         IF br THEN <<1, 1, 0>> ELSE <<0, 0, 1>>)),
      present |-> s] : s \in Presences, br \in BOOLEAN}
DrawableScenes == {k.scene : k \in DrawableBlocks}
ClaimedDrawables ==
    {SceneDrawable(112, br, W_DrawableFourThenBooleans(112, br, br, s, <<1, 1, 0>>)) :
        s \in {{}, {1}, {3}, {1, 2, 3, 4}}, br \in BOOLEAN}

\* the i-th tex-coord array and the j-th vertex attribute array (from 1) of
\* a legacy Geometry: Vec2 arrays of one element, of identities 20 + i and
\* 40 + j
TexCoordArray(i) == W_InlineArray(20 + i, 15, U32(1), [b \in 1..8 |-> i])
AttribArray(j) == W_InlineArray(40 + j, 15, U32(1), [b \in 1..8 |-> 100 + j])

\* a legacy Geometry with m tex-coord arrays and a VertexAttribData block of
\* n arrays
SceneAttribs(v, br, m, n) ==
    W_Hdr(v, br)
    \o W_Object(osg_Geometry, v, br, 1,
                W_GeometryBase(v, br, <<>>)
                \o W_List(v, br, <<>>)
                \o Concat([i \in 1..5 |-> W_OptInline(v, br, <<>>)])
                \o W_InlineList(v, br, [i \in 1..m |-> TexCoordArray(i)])
                \o W_True
                \o W_List(v, br, [j \in 1..n |-> W_Bracket(v, br) \o AttribArray(j)])
                \o W_True)
MaxTexCoords == 2
MaxAttribs == 3
AttribBlocks ==
    {[scene |-> SceneAttribs(v, br, m, n), m |-> m, n |-> n] :
        v \in {76, 111}, br \in BOOLEAN, m \in 0..MaxTexCoords, n \in 0..MaxAttribs}
AttribScenes == {k.scene : k \in AttribBlocks}

\* the i-th child (from 1) of a Group, by kind: a null reference, an empty
\* Group of identity 10 + i, or a StateSet of identity 30 + i
Child(v, br, kind, i) ==
    CASE kind = "null" -> W_Null
      [] kind = "node" -> W_Group(v, br, 10 + i, <<>>)
      [] kind = "other" -> W_StateSet(v, br, 30 + i, <<>>, <<>>, <<>>, <<>>, <<>>)

\* a Group of identity 1 with a children block of the given kinds
SceneKinds(v, br, kinds) ==
    W_Hdr(v, br)
    \o W_Object(osg_Group, v, br, 1,
                W_ObjectLayer(v, <<>>) \o W_NodeLayer(v, br, FALSE, <<>>)
                \o W_True
                \o W_List(v, br, [i \in 1..Len(kinds) |-> Child(v, br, kinds[i], i)]))
MaxChildren == 3
ChildKinds ==
    UNION {[1..n -> {"null", "node", "other"}] : n \in 0..MaxChildren}
ChildBlocks ==
    {[scene |-> SceneKinds(100, br, kinds), kinds |-> kinds] :
        kinds \in ChildKinds, br \in BOOLEAN}
ChildScenes == {k.scene : k \in ChildBlocks}

\* a Group with a null child and a Group child under a header whose
\* attribute word has other bits than 1, 2 and 4 set as well
SceneAttributes(v, attributes) ==
    LET br == (attributes[1] \div 4) % 2 = 1
    IN  W_Header(U32(1), U32(v), attributes, s_0)
        \o W_Group(v, br, 1, <<W_Null, W_Group(v, br, 2, <<>>)>>)
BracketScenes ==
    {SceneAttributes(v, x) :
        v \in {148, 149},
        x \in {U32(4), U32(8), <<4, 1, 0, 0>>, <<12, 0, 0, 128>>, <<248, 255, 255, 255>>}}

\* the state-set field of a layer, by kind: absent, a StateSet of identity
\* id, a reference to the identity 7, or a Group of identity id
StateField(v, br, kind, id) ==
    CASE kind = "none" -> <<>>
      [] kind = "own" -> W_StateSet(v, br, id, <<>>, <<>>, <<>>, <<>>, <<>>)
      [] kind = "same" -> W_Ref(osg_StateSet, v, br, 7)
      [] kind = "group" -> W_Group(v, br, id, <<>>)

\* a Geometry of version >= 154: its Node layer with the state set `node`
\* (identity 7), its Drawable layer with the state set `drawable` (identity
\* 8), no primitive sets and no arrays
SceneStateSets(v, br, node, drawable) ==
    W_Hdr(v, br)
    \o W_Object(osg_Geometry, v, br, 1,
                W_ObjectLayer(v, <<>>)
                \o W_NodeLayer(v, br, FALSE, StateField(v, br, node, 7))
                \o W_DrawableLayer(StateField(v, br, drawable, 8), TRUE)
                \o U32(0) \o Zero(5) \o U32(0) \o U32(0))
StateSetBlocks ==
    {[scene |-> SceneStateSets(v, br, k[1], k[2]), node |-> k[1], drawable |-> k[2]] :
        v \in {154, 155}, br \in BOOLEAN,
        k \in {<<"none", "none">>, <<"none", "own">>, <<"none", "group">>,
               <<"own", "none">>, <<"own", "own">>, <<"own", "same">>,
               <<"own", "group">>}}
StateSetScenes == {k.scene : k \in StateSetBlocks}

Inputs ==
    Tiles \cup SmallScenes \cup Oversized \cup Unsupported \cup Trailing
    \cup Truncated \cup Headers \cup BadMagic \cup NullRoots \cup BadBools
    \cup TruncatedHeaders \cup RangeScenes \cup GeometryForms \cup Looping
    \cup DrawableScenes \cup ClaimedDrawables \cup AttribScenes
    \cup ChildScenes \cup BracketScenes \cup StateSetScenes

-----------------------------------------------------------------------------

Init ==
    /\ buffer \in Inputs
    /\ pos = SizeT(0)
    /\ version = U32(0)
    /\ useBinaryBrackets = FALSE
    /\ objects = <<>>
    /\ images = <<>>
    /\ arrays = <<>>
    /\ heap = <<>>
    /\ stack = <<[fn |-> "Data_read", code |-> Data_read, regs |-> <<>>, to |-> ""]>>
    /\ ret = "none"
    /\ rootObject = 0
    /\ error = [offset |-> <<>>, msg |-> "", arg |-> <<>>]

Next ==
    \/ DoRead \/ DoReadBool \/ DoReadString \/ DoReadN
    \/ DoBeginBracket \/ DoEndBracket \/ DoSkip
    \/ DoIf \/ DoFor \/ DoLoop \/ DoInc \/ DoCall \/ DoReturn \/ DoThrow
    \/ DoNew \/ DoCast \/ DoMember \/ DoLet
    \/ DoSet \/ DoResize \/ DoSetElem \/ DoEmplaceBack \/ DoLocal
    \/ DoFind \/ DoPut
    \/ DoFinish

Spec == Init /\ [][Next]_vars

\* Data::read runs to its end: the reader is one thread that is never blocked
\* the buffers the termination of Data::read is checked on: every family of
\* malformed buffers, the tiles and small scenes, and the buffers whose
\* objects carry the identity of an object still being read
Terminating ==
    Tiles \cup SmallScenes \cup Oversized \cup Unsupported \cup Trailing
    \cup Prefixes(SceneShared(120, TRUE)) \cup Prefixes(SceneLegacy(111, TRUE))
    \cup Prefixes(SceneIndices(149, TRUE, U32(2), Zero(8)))
    \cup Headers \cup BadMagic \cup NullRoots \cup BadBools
    \cup TruncatedHeaders \cup Looping

FairInit == Init /\ buffer \in Terminating

FairSpec == FairInit /\ [][Next]_vars /\ WF_vars(Next)

Parsed == ret = "data"
NotParsed == ~Parsed
Failed == ret = "null" /\ error.msg # ""
NotFailed == ~Failed

-----------------------------------------------------------------------------
(* What the input holds, read off its bytes.                               *)

\* Data::read has returned
Returned == ret # "none"

\* the n bytes of the input at offset i, <<>> when the input is shorter
Field(i, n) == IF Len(buffer) >= i + n THEN SubSeq(buffer, i + 1, i + n) ELSE <<>>

MagicField == Field(0, 8)
KindField == Field(8, 4)
AttributesField == Field(16, 4)
\* the length word of the compressor name
CompressorSize == Field(20, 4)
CompressorField ==
    IF CompressorSize # <<>> /\ IsSmall(CompressorSize)
    THEN Field(24, Val(CompressorSize)) ELSE <<>>
\* where the header ends when it holds a whole compressor name
HeaderEnd == 24 + Val(CompressorSize)

\* bit 0 or bit 1 of the attribute word
CustomOrSchema == AttributesField[1] % 4 # 0

\* some frame of the stack runs fn
Running(fn) == \E i \in 1..Len(stack) : stack[i].fn = fn

\* nothing of an object has been read
NoObjectRead ==
    /\ ~Running("readObject")
    /\ heap = <<>> /\ objects = <<>> /\ images = <<>> /\ arrays = <<>>
    /\ rootObject = 0

\* readHeader has just returned to Data::read
HeaderAccepted == ret = "none" /\ Len(stack) = 1 /\ stack[1].code = Tail(Data_read)

-----------------------------------------------------------------------------
(* The header.                                                             *)

InvalidMagic == Len(buffer) >= 8 /\ MagicField # Magic
UnsupportedAttribute ==
    /\ Len(buffer) >= 20
    /\ MagicField = Magic
    /\ KindField # U32(0)
    /\ CustomOrSchema
UnsupportedCompressor ==
    /\ Len(buffer) >= 24
    /\ MagicField = Magic
    /\ KindField # U32(0)
    /\ ~CustomOrSchema
    /\ IsSmall(CompressorSize)
    /\ Len(buffer) >= HeaderEnd
    /\ CompressorField # s_0

\* C9: each header rejection is reported just past the offending field: a
\* magic that is not 0x1AFB45456C910EA1 at offset 8, an attribute word with
\* bit 0 or bit 1 set at offset 20, a compressor name other than "0" as
\* "unsupported compressor" at the end of the name; and no object is read.
C9_HeaderRejections ==
    /\ InvalidMagic \/ UnsupportedAttribute \/ UnsupportedCompressor => NoObjectRead
    /\ Returned /\ InvalidMagic =>
          /\ ret = "null"
          /\ error = [offset |-> SizeT(8), msg |-> "invalid data magic", arg |-> <<>>]
    /\ Returned /\ UnsupportedAttribute =>
          /\ ret = "null"
          /\ error = [offset |-> SizeT(20), msg |-> "unsupported attribute: ",
                      arg |-> KindField]
    /\ Returned /\ UnsupportedCompressor =>
          /\ ret = "null"
          /\ error = [offset |-> SizeT(HeaderEnd), msg |-> "unsupported compressor: ",
                      arg |-> CompressorField]

\* a parse of a header naming the compressor "zlib" has ended
C9_Witness ==
    /\ Returned
    /\ UnsupportedCompressor
    /\ CompressorField = zlib
    /\ error.offset = SizeT(28)

\* C10: the header is accepted only when the container kind is 1, 2 or 3.
C10_KindOneTwoThree == HeaderAccepted => KindField \in {U32(1), U32(2), U32(3)}

\* C7 as stated: after the empty scene the root is null, no error is
\* reported and the cursor is at the end of the buffer.
C7_EmptySceneEnded ==
    buffer = EmptyScene /\ Returned =>
        rootObject = 0 /\ error.msg = "" /\ ended

\* C7: after the empty scene (header, a bracket prefix 0, an empty class
\* string) the root is null and no error is reported, but the reader has
\* taken the four bytes of the prefix for the empty class string: the cursor
\* is four bytes before the end of the buffer, ended() is false, and
\* Data::read returns nullptr.
C7_EmptyScene ==
    buffer = EmptyScene /\ Returned =>
        /\ ret = "null" /\ rootObject = 0 /\ heap = <<>>
        /\ error.msg = ""
        /\ pos = SizeT(length - 4)
        /\ ~ended

C7_Witness == buffer = EmptyScene /\ Returned /\ pos = SizeT(29)

-----------------------------------------------------------------------------
(* The cursor.                                                             *)

\* C1 as stated: in every reachable state the cursor is at most the buffer
\* length, and an Error "read beyond data length" reports an offset inside
\* the buffer.
C1_CursorInBuffer ==
    /\ ~Gt(pos, length)
    /\ error.msg = "read beyond data length" => ~Gt(error.offset, length)

\* C2: Data::read returns a Data only with a root read by the one top-level
\* readObject that follows the header and with the cursor at the buffer
\* length; a scene followed by trailing bytes yields nullptr.
C2_ConsumedExactly ==
    /\ Parsed => /\ pos = SizeT(length)
                 /\ rootObject \in 1..Len(heap)
                 /\ stack = <<>>
    /\ Len(stack) >= 2 =>
          /\ stack[1].fn = "Data_read"
          /\ stack[2].fn \in {"readHeader", "readObject"}
          /\ stack[2].fn = "readHeader" => stack[1].code = Tail(Data_read)
          /\ stack[2].fn = "readObject" => stack[1].code = <<I_Finish>>
    /\ buffer \in Trailing /\ Returned => ret = "null" /\ Lt(pos, length)

\* a scene followed by trailing bytes has been read up to the trailing bytes
\* and Data::read has returned nullptr without an Error
C2_Witness ==
    /\ buffer \in Trailing
    /\ ret = "null"
    /\ error.msg = ""
    /\ heap # <<>>

-----------------------------------------------------------------------------
(* The graph of a parse.                                                   *)

Handles(items) == {items[i] : i \in 1..Len(items)} \ {0}
Firsts(pairs) == {pairs[i][1] : i \in 1..Len(pairs)} \ {0}

\* the instances an instance holds a shared_ptr to
Refs(h) ==
    LET o == heap[h]
        Has(f) == f \in DOMAIN o
    IN  (IF Has("stateSet") THEN {o.stateSet} ELSE {})
        \cup (IF Has("children") THEN Handles(o.children.items) ELSE {})
        \cup (IF Has("drawables") THEN Handles(o.drawables.items) ELSE {})
        \cup (IF Has("primitives")
              THEN Handles(o.primitives.items)
                   \cup {o.vertexData, o.normalData, o.colorData,
                         o.secondaryColorData, o.fogCoordData}
                   \cup Handles(o.texCoordDataList.items)
              ELSE {})
        \cup (IF Has("attributes")
              THEN Firsts(o.attributes)
                   \cup UNION {Firsts(o.textureAttributesList[i]) :
                                  i \in 1..Len(o.textureAttributesList)}
              ELSE {})
        \cup (IF Has("image") THEN {o.image} ELSE {})

RECURSIVE Closure(_)
Closure(S) ==
    LET T == (S \cup UNION {Refs(h) : h \in S}) \ {0}
    IN  IF T = S THEN S ELSE Closure(T)

\* the instances of the returned Data: those reachable from rootObject
Graph == IF rootObject = 0 THEN {} ELSE Closure({rootObject})

\* the frame on top of the stack runs readObject and has looked its identity
\* up in the registry, and has not dispatched yet
LookedUp ==
    /\ ret = "none" /\ stack # <<>>
    /\ Top.fn = "readObject"
    /\ "it" \in DOMAIN Top.regs
    /\ "object" \notin DOMAIN Top.regs

\* the value a step returned to the frame below the top
Returns(h) ==
    /\ Len(stack') = Len(stack) - 1
    /\ Top.to # ""
    /\ stack'[Len(stack')].regs[Top.to] = h

\* C3 as stated: a readObject that finds its identity in the registry
\* returns the registered instance and moves the cursor no further, and an
\* identity never comes to stand for another instance: once the registry
\* holds an instance for an identity, it holds that instance from then on.
C3_OneInstancePerIdentity ==
    [][/\ LookedUp /\ Top.regs["it"] # 0 =>
              /\ pos' = pos
              /\ ret' = "none"
              /\ Len(stack') <= Len(stack)
              /\ Len(stack') < Len(stack) => Returns(objects[Top.regs["uniqueId"]])
       /\ \A u \in DOMAIN objects : u \in DOMAIN objects' /\ objects'[u] = objects[u]
      ]_vars

\* C4 as stated: no two distinct instances of the returned graph carry the
\* same uniqueId.
C4_UniqueIdentities ==
    Parsed => \A g, h \in Graph : g # h => heap[g].uniqueId # heap[h].uniqueId

-----------------------------------------------------------------------------
(* Payloads.                                                               *)

\* a width in which start + count * k cannot wrap
Wide == SizeTBytes + U32Bytes + 1

\* the count * k bytes at start lie inside the buffer (exact arithmetic)
InBuffer(start, count, k) ==
    /\ ~Gt(start, length)
    /\ ~Gt(Add(Extend(start, Wide), Mul(Extend(count, Wide), k)), length)

ArrayInstances == {h \in 1..Len(heap) : "Array" \in Bases(heap[h].cls)}
PrimitiveSets == {h \in 1..Len(heap) : "PrimitiveSet" \in Bases(heap[h].cls)}
Images == {h \in 1..Len(heap) : heap[h].cls = "Image"}

\* C5 as stated: after a successful parse the payload of every Array,
\* elementCount * elementSize bytes from elementData, computed without
\* wrap-around, lies inside the buffer.
C5_ArrayPayloadInBuffer ==
    Parsed =>
        \A h \in ArrayInstances :
            IF heap[h].elementData = nullptr
            THEN heap[h].elementCount = U32(0)
            ELSE InBuffer(heap[h].elementData, heap[h].elementCount,
                          heap[h].elementSize)

\* C6: after a successful parse the indexCount * 4 bytes at indexData of
\* every primitive set and the dataLength bytes at data of every Image lie
\* inside the buffer.
C6_PayloadsInBuffer ==
    Parsed =>
        /\ \A h \in PrimitiveSets :
              heap[h].indexData # nullptr =>
                  InBuffer(heap[h].indexData, heap[h].indexCount, U32Bytes)
        /\ \A h \in Images :
              heap[h].data # nullptr =>
                  InBuffer(heap[h].data, heap[h].dataLength, 1)

\* a parse has returned a DrawElementsUInt with indices and an Image with
\* bytes
C6_Witness ==
    /\ Parsed
    /\ \E h \in PrimitiveSets :
          heap[h].cls = "DrawElementsUInt" /\ Gt(heap[h].indexCount, 0)
    /\ \E h \in Images : Gt(heap[h].dataLength, 0)

-----------------------------------------------------------------------------
(* Unknown classes.                                                        *)

Recognised ==
    {osg_PagedLOD, osg_Group, osg_Geode, osg_Geometry, osg_StateSet, osg_Material,
     osg_Texture2D, osg_DefaultUserDataContainer, osg_DrawElementsUInt,
     osg_Vec3Array, osg_Vec2Array}

\* the frame on top of the stack runs readObject on a class name that is not
\* empty and not recognised
UnknownClass ==
    /\ ret = "none" /\ stack # <<>>
    /\ Top.fn = "readObject"
    /\ "className" \in DOMAIN Top.regs
    /\ Top.regs["className"] # <<>>
    /\ Top.regs["className"] \notin Recognised

\* C8 as stated: a readObject on an unrecognised class name never returns
\* to its caller, and the Error it throws once it has read the identity is
\* "unsupported object class: <tag>".
C8_AlwaysUnsupported ==
    [][UnknownClass =>
          /\ ret' = "none" => Len(stack') = Len(stack)
          /\ ret' # "none" /\ "uniqueId" \in DOMAIN Top.regs =>
                error' = [offset |-> pos, msg |-> "unsupported object class: ",
                          arg |-> Top.regs["className"]]
      ]_vars

\* C8: a readObject on an unrecognised class name whose identity is not in
\* the object registry fails with "unsupported object class: <tag>" at the
\* offset past the identity, without reading any further byte or calling a
\* field reader; when the identity is registered, it returns the registered
\* instance instead, without an Error.
C8_UnsupportedUnlessRegistered ==
    [][UnknownClass /\ LookedUp =>
          /\ pos' = pos
          /\ heap' = heap /\ objects' = objects
          /\ IF Top.regs["it"] # 0
             THEN /\ ret' = "none"
                  /\ Len(stack') <= Len(stack)
                  /\ Len(stack') < Len(stack) =>
                        Returns(objects[Top.regs["uniqueId"]])
             ELSE \/ ret' = "none" /\ Len(stack') = Len(stack)
                  \/ /\ ret' = "null"
                     /\ error' = [offset |-> pos,
                                  msg |-> "unsupported object class: ",
                                  arg |-> Top.regs["className"]]
      ]_vars

\* the parse has failed on the class osg::Foo while the registry held
\* other identities
C8_Witness ==
    /\ Returned
    /\ error.msg = "unsupported object class: "
    /\ error.arg = osg_Foo
    /\ objects # <<>>

-----------------------------------------------------------------------------
(* Booleans.                                                               *)

\* the reader is about to read a bool from a byte that is neither 0 nor 1
AtInvalidBool ==
    /\ Doing("RdBool")
    /\ Lt(pos, length)
    /\ buffer[Val(pos) + 1] \notin {0, 1}

\* C11 as stated: a bool read from a byte that is neither 0 nor 1 fails with
\* "invalid bool value" at the offset of the byte, and the cursor stays.
C11_InvalidBool ==
    [][AtInvalidBool =>
          /\ ret' = "null"
          /\ error' = [offset |-> pos, msg |-> "invalid bool value", arg |-> <<>>]
          /\ pos' = pos
      ]_vars

-----------------------------------------------------------------------------
(* Truncated headers.                                                      *)

\* the offset of the header field that the end of a truncated header falls
\* into: the magic, the kind, the version, the attributes, the size of the
\* compressor name, the name
CutField ==
    IF length < 8 THEN 0
    ELSE IF length < 24 THEN 8 + 4 * ((length - 8) \div 4)
    ELSE 24

\* C12: on a valid header cut to any length shorter than the header,
\* Data::read returns nullptr with the Error "read beyond data length",
\* thrown at the start of the field the cut falls into, and reads no object.
C12_TruncatedHeader ==
    buffer \in TruncatedHeaders =>
        /\ NoObjectRead
        /\ Returned =>
              /\ ret = "null"
              /\ error = [offset |-> SizeT(CutField),
                          msg |-> "read beyond data length", arg |-> <<>>]

\* a header cut one byte before its end, inside the compressor name, has
\* been rejected
C12_Witness ==
    /\ buffer \in TruncatedHeaders
    /\ length = 24
    /\ Returned
    /\ error.offset = SizeT(24)

-----------------------------------------------------------------------------
(* PagedLOD: the RangeData block.                                          *)

Max(a, b) == IF a > b THEN a ELSE b

\* rangeDataList of the root holds what a block of fsize filenames and psize
\* priority pairs describes
RangeDataRead(fsize, psize) ==
    LET list == heap[rootObject].rangeDataList
    IN  /\ list.n = U32(Max(fsize, psize))
        /\ Len(list.items) <= Max(fsize, psize)
        /\ \A i \in 0..(Max(fsize, psize) - 1) :
              LET e == At(list, "rangeDataList", i)
              IN  /\ e.filename = IF i < fsize THEN Filename(i) ELSE <<>>
                  /\ e.priorityOffset = IF i < psize THEN PriorityOffset(i)
                                        ELSE U32(0)
                  /\ e.priorityScale = IF i < psize THEN PriorityScale(i)
                                       ELSE U32(0)

\* C13: after a RangeData block of fsize filenames and psize priority pairs,
\* rangeDataList has max(fsize, psize) entries; entry i has the i-th
\* filename for i < fsize and an empty one otherwise, and the i-th priority
\* pair for i < psize and zeros otherwise.
C13_RangeDataList ==
    Returned /\ buffer \in RangeScenes =>
        \A k \in RangeBlocks :
            buffer = k.scene =>
                /\ Parsed
                /\ heap[rootObject].cls = "PagedLOD"
                /\ RangeDataRead(k.fsize, k.psize)

\* two filenames and three priority pairs have been read: three entries, the
\* last with an empty filename and its priority pair
C13_Witness ==
    /\ Parsed
    /\ \E k \in RangeBlocks : buffer = k.scene /\ k.fsize = 2 /\ k.psize = 3
    /\ heap[rootObject].rangeDataList.n = U32(3)
    /\ At(heap[rootObject].rangeDataList, "rangeDataList", 2) =
          [filename |-> <<>>, priorityOffset |-> PriorityOffset(2),
           priorityScale |-> PriorityScale(2)]

-----------------------------------------------------------------------------
(* Geometry: the legacy and the object form.                               *)

\* the n bytes of the buffer a zero-copy pointer refers to
Payload(start, n) ==
    IF start = nullptr THEN <<>> ELSE SubSeq(buffer, Val(start) + 1, Val(start) + n)

\* what an array instance (0 for null) holds
ArrayContent(h) ==
    IF h = 0 THEN NoArray
    ELSE [arrayType |-> heap[h].arrayType,
          elementCount |-> heap[h].elementCount,
          bytes |-> Payload(heap[h].elementData,
                            Val(heap[h].elementCount) * heap[h].elementSize)]

\* what a primitive set instance holds
PrimitiveContent(h) ==
    [mode |-> heap[h].mode,
     indexCount |-> heap[h].indexCount,
     bytes |-> Payload(heap[h].indexData, Val(heap[h].indexCount) * U32Bytes)]

\* the entries of a vector, those never assigned included
All(vec, field) == Entries(vec, field, Val(vec.n))

\* the content of the Geometry g
GeometryContent(g) ==
    LET o == heap[g]
        prims == All(o.primitives, "primitives")
        tex == All(o.texCoordDataList, "texCoordDataList")
    IN  [primitives |-> [i \in 1..Len(prims) |->
                            IF prims[i] = 0 THEN NoArray
                            ELSE PrimitiveContent(prims[i])],
         arrays |-> <<ArrayContent(o.vertexData), ArrayContent(o.normalData),
                      ArrayContent(o.colorData), ArrayContent(o.secondaryColorData),
                      ArrayContent(o.fogCoordData)>>,
         texCoords |-> [i \in 1..Len(tex) |-> ArrayContent(tex[i])]]

\* C14 as stated: a Geometry content written in the legacy form at version
\* 111 and in the object form at version 112 parses in both forms, and both
\* parses give equivalent Geometry entities: each has the primitive modes,
\* index counts and index bytes, and the array fields with the element
\* types, counts and bytes, of the content the two streams were written
\* from.
C14_FormsEquivalent ==
    Returned /\ buffer \in GeometryForms =>
        \A k \in GeometryPairs :
            buffer \in {k.legacy, k.object} =>
                /\ Parsed
                /\ heap[rootObject].cls = "Geometry"
                /\ GeometryContent(rootObject) = k.content

-----------------------------------------------------------------------------
(* Termination.                                                            *)

\* the frames of the stack that run readObject, readImage or ReadArray
Reads == {i \in 1..Len(stack) : stack[i].fn \in {"readObject", "readImage", "ReadArray"}}

\* the counters of the loops the frame f is in
Counters(f) ==
    {f.regs[f.code[k].i] : k \in {k \in 1..Len(f.code) : f.code[k].op \in {"Loop", "Inc"}}}

\* the cursor is at least n
Consumed(n) == ~Lt(pos, n)

\* every iteration a loop has finished, and every readObject, readImage or
\* ReadArray call below the innermost one, has consumed at least one byte
Progress ==
    /\ \A i \in 1..Len(stack) : \A c \in Counters(stack[i]) : Consumed(c)
    /\ Consumed(Cardinality(Reads) - 1)

\* C15: Data::read terminates on every input buffer, those included in
\* which an object's body refers to its own identity or to the identity of
\* an enclosing object that is still being read: every call of readObject
\* and every loop iteration has consumed at least one byte, and the read
\* eventually returns (a result, a null result or an error).
C15_Terminates == []Progress /\ <>Returned

\* the read of a Group whose child and grandchild carry the Group's own
\* identity has returned: each of the three was read as a Group of its own
C15_Witness ==
    /\ Returned
    /\ Cardinality({h \in 1..Len(heap) :
                       heap[h].cls = "Group" /\ heap[h].uniqueId = U32(5)}) = 3

-----------------------------------------------------------------------------
(* Registration.                                                           *)

\* the instance h is in a registry
Registered(h) ==
    \/ \E k \in DOMAIN objects : objects[k] = h
    \/ \E k \in DOMAIN images : images[k] = h
    \/ \E k \in DOMAIN arrays : arrays[k] = h

\* the instances created on the first sighting of an identity: all but the
\* primitive sets a legacy Geometry holds in line
FirstSighted == {h \in 1..Len(heap) : heap[h].cls # "PrimitiveSet"}

\* C16 as stated: every entity created on the first sighting of its
\* identity (by readObject, readImage or ReadArray) is in its registry
\* before any of its fields are parsed: no byte is consumed while an entity
\* that has been created is in no registry.
C16_RegisteredBeforeFields ==
    [][pos' # pos => \A h \in FirstSighted : Registered(h)]_vars

-----------------------------------------------------------------------------
(* The Drawable layer.                                                     *)

\* the identities of the Groups the parse has created
GroupIdentities ==
    {heap[h].uniqueId : h \in {h \in 1..Len(heap) : heap[h].cls = "Group"}}

\* C17 as stated: the Drawable layer consumes a flag-gated state set, a
\* flag-gated bound of 6 doubles, exactly four flag-gated objects, and only
\* then the three booleans: a Geometry whose Drawable layer is written in
\* that order is read to its end.
C17_FourThenBooleans ==
    Returned /\ buffer \in ClaimedDrawables => Parsed

\* C17: the Drawable layer consumes a flag-gated state set, a flag-gated
\* bound of 6 doubles, two flag-gated objects (computeBoundingBoxCallback,
\* shape), the three booleans, and then four flag-gated callback objects: a
\* Geometry whose Drawable layer is written in that order is read to its
\* end, and exactly the objects present in the layer are read.
C17_DrawableOrder ==
    Returned /\ buffer \in DrawableScenes =>
        \A k \in DrawableBlocks :
            buffer = k.scene =>
                /\ Parsed
                /\ GroupIdentities = {U32(10 + i) : i \in k.present}

\* a layer with a shape before the booleans and an update callback after
\* them has been read
C17_Witness ==
    /\ Parsed
    /\ buffer \in DrawableScenes
    /\ GroupIdentities = {U32(12), U32(13)}

-----------------------------------------------------------------------------
(* The VertexAttribData block of a legacy Geometry.                        *)

\* the identity of the array instance h, <<>> for null
IdentityOf(h) == IF h = 0 THEN <<>> ELSE heap[h].uniqueId

\* the identities of the entries of the tex-coord list of the root Geometry
TexCoordIdentities ==
    LET list == All(heap[rootObject].texCoordDataList, "texCoordDataList")
    IN  [i \in 1..Len(list) |-> IdentityOf(list[i])]

-----------------------------------------------------------------------------
(* The children of a Group.                                                *)

\* the identities of the children of the root Group, <<>> for a null slot
ChildIdentities ==
    LET list == All(heap[rootObject].children, "children")
    IN  [i \in 1..Len(list) |-> IdentityOf(list[i])]

\* C19: after the Group layer has read a children block of count n, the
\* children sequence has length n in stream order; the slot of a null
\* reference and of an object that is not a Node is null; and the bytes of
\* such an object are consumed all the same: its fields are read and it is
\* registered, and the parse ends at the end of the buffer.
C19_Children ==
    Returned /\ buffer \in ChildScenes =>
        \A k \in ChildBlocks :
            buffer = k.scene =>
                /\ Parsed
                /\ heap[rootObject].children.n = U32(Len(k.kinds))
                /\ ChildIdentities =
                      [i \in 1..Len(k.kinds) |->
                          IF k.kinds[i] = "node" THEN U32(10 + i) ELSE <<>>]
                /\ \A i \in 1..Len(k.kinds) :
                      k.kinds[i] = "other" =>
                          /\ U32(30 + i) \in DOMAIN objects
                          /\ heap[objects[U32(30 + i)]].cls = "StateSet"

\* a Group whose children are a StateSet, a Group and a null reference has
\* been read
C19_Witness ==
    /\ Parsed
    /\ buffer \in ChildScenes
    /\ ChildIdentities = <<<<>>, U32(12), <<>>>>
    /\ U32(31) \in DOMAIN objects

-----------------------------------------------------------------------------
(* Brackets.                                                               *)

\* the version word of the header
VersionField == Field(12, 4)

\* the size of a begin-bracket by the header of the buffer: none when bit 2
\* of the attribute word is clear, else an int up to version 148 and a long
\* long after
BracketSize ==
    IF (AttributesField[1] \div 4) % 2 = 0 THEN 0
    ELSE IF Gt(VersionField, 148) THEN 8 ELSE 4

\* the reader is in a readObject that has read an empty class name
EmptyClassName ==
    /\ ret = "none" /\ stack # <<>>
    /\ Top.fn = "readObject"
    /\ "className" \in DOMAIN Top.regs
    /\ Top.regs.className = <<>>

\* C20: a begin-bracket advances the cursor by 0 bytes when bit 2 of the
\* header's attribute word is clear, by 4 bytes when it is set and the
\* version is at most 148, and by 8 bytes when it is set and the version is
\* above 148; an end-bracket does not move the cursor; and a readObject that
\* has read an empty class name consumes nothing more, no bracket either.
C20_Brackets ==
    [][/\ Doing("Begin") => pos' = Add(pos, SizeT(BracketSize))
       /\ Doing("End") => pos' = pos
       /\ EmptyClassName => pos' = pos]_vars

\* the root readObject of a version-149 stream with brackets has passed its
\* bracket: the cursor is 8 bytes after the class name
C20_Witness ==
    /\ ret = "none" /\ Len(stack) = 2
    /\ Top.fn = "readObject"
    /\ "className" \in DOMAIN Top.regs
    /\ "uniqueId" \notin DOMAIN Top.regs
    /\ Top.code # <<>> /\ Cur.op = "Rd"
    /\ VersionField = U32(149)
    /\ BracketSize = 8
    /\ pos = SizeT(HeaderEnd + U32Bytes + Len(Top.regs.className) + 8)

-----------------------------------------------------------------------------
(* The cursor moves forward only.                                          *)

\* C21: across the operations of one parse (reads, string reads, bracket
\* skips, payload skips, the resolution of a back-reference, failed reads)
\* the cursor never decreases.
C21_ForwardOnly == [][~GtU(pos, pos')]_vars

\* a payload skip has carried the cursor past the end of the buffer, further
\* than a bracket can, and the read after it has failed, leaving the cursor
\* where it was
C21_Witness ==
    /\ Failed
    /\ error.msg = "read beyond data length"
    /\ Gt(pos, length + 8)
    /\ error.offset = pos

-----------------------------------------------------------------------------
(* The state set of a Geometry of version >= 154.                          *)

\* C22: for a Geometry of version >= 154, whose Node layer and Drawable
\* layer both run, the stateSet after the parse is what the Drawable layer
\* read: its own StateSet, the instance of the identity it refers to, or
\* null when its flag is false or its object is no StateSet; a state set
\* read by the Node layer is replaced, and stays in the registry.
C22_DrawableStateSet ==
    Returned /\ buffer \in StateSetScenes =>
        \A k \in StateSetBlocks :
            buffer = k.scene =>
                /\ Parsed
                /\ IdentityOf(heap[rootObject].stateSet) =
                      CASE k.drawable = "own" -> U32(8)
                        [] k.drawable = "same" -> U32(7)
                        [] OTHER -> <<>>
                /\ k.node = "own" =>
                      /\ U32(7) \in DOMAIN objects
                      /\ heap[objects[U32(7)]].cls = "StateSet"
                      /\ k.drawable = "same" => heap[rootObject].stateSet = objects[U32(7)]

\* a Geometry whose Node layer read the StateSet 7 and whose Drawable layer
\* read none has been parsed: its stateSet is null, the StateSet registered
C22_Witness ==
    /\ Parsed
    /\ buffer \in StateSetScenes
    /\ heap[rootObject].stateSet = 0
    /\ U32(7) \in DOMAIN objects
    /\ U32(8) \notin DOMAIN objects
    /\ U32(8) \notin GroupIdentities

-----------------------------------------------------------------------------
(* The result of Data::read.                                               *)

\* C23: Data::read never returns a Data whose rootObject is null: when it
\* returns the data the root is an instance, and a stream whose top-level
\* class name is empty yields a null result, with no instance created and
\* the error string left unwritten.
C23_NoEmptyResult ==
    /\ Parsed => rootObject \in 1..Len(heap)
    /\ Returned /\ buffer \in NullRoots =>
          ret = "null" /\ rootObject = 0 /\ heap = <<>> /\ error.msg = ""

\* a stream that is a header and an empty class name has been read to its
\* end, and the result is null
C23_Witness ==
    /\ buffer \in NullRoots
    /\ ret = "null"
    /\ ended
    /\ error.msg = ""

====
